---- MODULE Spec2Model ----
(***************************************************************************)
(* Model of the document indexing core of jina-mcp-scraper:                *)
(*   SimpleTextSplitter      (src/unnamed/part_002)                        *)
(*   DatabaseManager + schema (src/src/database)                           *)
(*   DocumentIndexingService (src/unnamed/part_001)                        *)
(*   MockEmbeddingsService   (src/src/embeddings)                          *)
(*   the tools of the index  (src/index-docker.js)                         *)
(*                                                                         *)
(* Text is a sequence of one-character strings, so that String.split,      *)
(* String.trim and the regular expressions of the splitter are computed    *)
(* character by character.                                                 *)
(***************************************************************************)
EXTENDS Integers, Sequences, FiniteSets, TLC

VARIABLES
    text,        \* splitText: the input text
    splitter,    \* the SimpleTextSplitter instance (its option fields)
    emitted,     \* splitText: the returned chunk list
    pc,          \* position of the run: "api", "start", "split", "stored"; of the
                 \* server: "loading", "ready", "disabled"
    documents,   \* table documents
    chunks,      \* table chunks
    chunks_fts,  \* virtual table chunks_fts
    embeddings,  \* table embeddings
    seq,         \* AUTOINCREMENT counters (sqlite_sequence)
    path,        \* updateHeadingPath: the running heading path and the last call
    last,        \* the last call: its name, arguments and outcome
    documentIndexingService,  \* index-docker.js: the service handle, unset until initialized
    calls,       \* the indexFile calls in flight: where each is and its local variables
    outputFile,  \* the content of the file jina_reader_list writes, NoFile before
    loop         \* the event loop of the server: how far the module has run and
                 \* the continuations that wait to be run

vars == <<text, splitter, emitted, pc, documents, chunks, chunks_fts, embeddings, seq, path, last,
          documentIndexingService, calls, outputFile, loop>>

dbvars == <<documents, chunks, chunks_fts, embeddings, seq>>

-----------------------------------------------------------------------------
(* Bounds of the model *)

MaxPieces == 4

TestChunkSize == 5

TestOverlap == 1

MaxDocs == 2

MaxEmbeddingRows == 1

MaxReinsertRows == 2

MaxLimit == 2

MaxHeadings == 4

\* Components of an embedding vector kept by the model
VectorLen == 2

\* Most documents stored before embeddings are inserted in batches
MaxEmbeddedDocs == 1

\* indexFile calls that can be in flight together
MaxCalls == 2

\* lines of the input file of jina_reader_list
MaxLines == 2

(* Program constants *)

DefaultMaxChunkSize == 1000

DefaultChunkOverlap == 200

IndexerMaxChunkSize == 1000

IndexerChunkOverlap == 200

MaxHeadingLevel == 6

OverFetch == 2

\* (hash << 5) - hash
HashFactor == 31

\* 2^16: half of the 32 bits of hash & hash
HalfWord == 65536

-----------------------------------------------------------------------------
(* JavaScript values *)

Undefined == "undefined"

Null == "null"

NL == "\n"

SP == " "

Whitespace == {SP, NL}

\* The grave accent character (the lexer of the tools does not accept it in a string)
Backtick == "grave"

Range(s) == {s[i] : i \in DOMAIN s}

SetMin(S) == CHOOSE x \in S : \A y \in S : x <= y

SetMax(S) == CHOOSE x \in S : \A y \in S : x >= y

Take(s, n) == SubSeq(s, 1, IF n < Len(s) THEN n ELSE Len(s))

RECURSIVE Flatten(_)
\* ss[1] \o ss[2] \o ...
Flatten(ss) == IF ss = <<>> THEN <<>> ELSE Head(ss) \o Flatten(Tail(ss))

RECURSIVE Join(_, _)
\* Array.prototype.join(sep)
Join(parts, sep) ==
    IF parts = <<>> THEN <<>>
    ELSE IF Len(parts) = 1 THEN parts[1]
    ELSE parts[1] \o sep \o Join(Tail(parts), sep)

\* String.prototype.trim
Trim(s) ==
    LET keep == {i \in DOMAIN s : s[i] \notin Whitespace}
    IN  IF keep = {} THEN <<>> ELSE SubSeq(s, SetMin(keep), SetMax(keep))

\* s.startsWith(sub, at i)
OccursAt(s, sub, i) ==
    /\ i + Len(sub) - 1 <= Len(s)
    /\ \A k \in 1..Len(sub) : s[i + k - 1] = sub[k]

\* String.prototype.includes
Includes(s, sub) == \E i \in 1..Len(s) : OccursAt(s, sub, i)

RECURSIVE SplitStrFrom(_, _, _, _)
SplitStrFrom(s, sep, start, i) ==
    IF i > Len(s) THEN <<SubSeq(s, start, Len(s))>>
    ELSE IF OccursAt(s, sep, i)
         THEN <<SubSeq(s, start, i - 1)>> \o SplitStrFrom(s, sep, i + Len(sep), i + Len(sep))
         ELSE SplitStrFrom(s, sep, start, i + 1)

\* String.prototype.split(sep) for a non-empty string separator
SplitStr(s, sep) == SplitStrFrom(s, sep, 1, 1)

\* Number of leading characters of s that are in set
LeadingCount(s, set) ==
    LET stop == {i \in DOMAIN s : s[i] \notin set}
    IN  IF stop = {} THEN Len(s) ELSE SetMin(stop) - 1

\* End of the match of /\n\s*\n/ that starts at i, or 0: \s* is greedy and
\* backtracks to the last newline of the whitespace run that starts at i.
BlankLineMatchEnd(s, i) ==
    IF s[i] # NL THEN 0
    ELSE LET run == LeadingCount(SubSeq(s, i, Len(s)), Whitespace)
             ends == {j \in (i + 1)..(i + run - 1) : s[j] = NL}
         IN  IF ends = {} THEN 0 ELSE SetMax(ends)

RECURSIVE SplitParagraphsFrom(_, _, _)
SplitParagraphsFrom(s, start, i) ==
    IF i > Len(s) THEN <<SubSeq(s, start, Len(s))>>
    ELSE LET e == BlankLineMatchEnd(s, i)
         IN  IF e > 0
             THEN <<SubSeq(s, start, i - 1)>> \o SplitParagraphsFrom(s, e + 1, e + 1)
             ELSE SplitParagraphsFrom(s, start, i + 1)

\* text.split(/\n\s*\n/)
SplitParagraphs(s) == SplitParagraphsFrom(s, 1, 1)

\* trimmed.match(/^(#{1,6})\s+(.+)$/): [matched, level, headingText]
HeadingMatch(trimmed) ==
    LET h    == LeadingCount(trimmed, {"#"})
        w    == LeadingCount(SubSeq(trimmed, h + 1, Len(trimmed)), Whitespace)
        rest == SubSeq(trimmed, h + w + 1, Len(trimmed))
    IN  [matched     |-> /\ h >= 1
                         /\ h <= MaxHeadingLevel
                         /\ w >= 1
                         /\ rest # <<>>
                         /\ NL \notin Range(rest),
         level       |-> h,
         headingText |-> rest]

-----------------------------------------------------------------------------
(* SimpleTextSplitter *)

PathSep == <<SP, ">", SP>>

\* constructor(options): a falsy option (absent or 0) takes the default
NewSplitter(options) ==
    [maxChunkSize |-> IF options.maxChunkSize = 0 THEN DefaultMaxChunkSize
                      ELSE options.maxChunkSize,
     chunkOverlap |-> IF options.chunkOverlap = 0 THEN DefaultChunkOverlap
                      ELSE options.chunkOverlap]

\* Mutant of TruncatePath: slice(0, level)
TruncatePathToLevel(pathParts, level) == Take(pathParts, level)

\* pathParts.slice(0, level - 1)
TruncatePath(pathParts, level) == Take(pathParts, level - 1)

updateHeadingPath(currentPath, newHeading, level) ==
    IF currentPath = <<>> THEN newHeading
    ELSE LET pathParts == SplitStr(currentPath, PathSep)
             newPath   == Append(TruncatePath(pathParts, level), newHeading)
         IN  Join(newPath, PathSep)

detectChunkType(content) ==
    IF Includes(content, <<Backtick, Backtick, Backtick>>) THEN "code"
    ELSE IF Includes(content, <<"|">>) /\ Includes(content, <<"-", "-", "-">>) THEN "table"
    ELSE IF LET h == LeadingCount(content, {"#"})
            IN  /\ h >= 1
                /\ h <= MaxHeadingLevel
                /\ h < Len(content)
                /\ content[h + 1] \in Whitespace
         THEN "heading"
    ELSE "text"

\* content.split(/\s+/).length: one more than the number of whitespace runs
TokenCount(content) ==
    1 + Cardinality({i \in DOMAIN content :
                        /\ content[i] \in Whitespace
                        /\ (i = 1 \/ content[i - 1] \notin Whitespace)})

createChunk(content, headingPath, index, metadata) ==
    [content     |-> content,
     headingPath |-> headingPath,
     index       |-> index,
     type        |-> detectChunkType(content),
     tokenCount  |-> TokenCount(content),
     metadata    |-> metadata]

\* What the model remembers of a chunk besides the chunk itself: the buffer
\* it was made from and the heading path at the time the first paragraph of
\* that buffer was put in it
BuiltFrom(st) == [buffer |-> st.currentChunk, path |-> st.startPath]

\* Mutant of PushChunk: chunkIndex is not incremented
PushChunkSameIndex(st, metadata) ==
    [st EXCEPT !.chunks = Append(@, createChunk(Trim(st.currentChunk), st.currentHeading,
                                                st.chunkIndex, metadata)),
               !.built = Append(@, BuiltFrom(st))]

\* chunks.push(createChunk(currentChunk.trim(), currentHeading, chunkIndex++, metadata))
PushChunk(st, metadata) ==
    [st EXCEPT !.chunks = Append(@, createChunk(Trim(st.currentChunk), st.currentHeading,
                                                st.chunkIndex, metadata)),
               !.chunkIndex = @ + 1,
               !.built = Append(@, BuiltFrom(st))]

\* Mutant of BufferAfterFlush: the flushed buffer is kept (currentChunk = proposedChunk)
BufferNotReset(st, trimmed) == st.currentChunk \o trimmed \o <<NL, NL>>

\* The buffer that follows a flush in the regular-content branch
BufferAfterFlush(st, trimmed) == trimmed \o <<NL, NL>>

\* Mutant of TooLong: the blank-line separator that ends the buffer is not
\* counted
TooLongTrimmed(self, proposedChunk) == Len(Trim(proposedChunk)) > self.maxChunkSize

\* proposedChunk.length > this.maxChunkSize
TooLong(self, proposedChunk) == Len(proposedChunk) > self.maxChunkSize

\* Mutant of HeadingStep: the heading path is updated before the buffer is
\* flushed
HeadingStepUpdatesFirst(st, trimmed, hm, metadata) ==
    LET newPath == updateHeadingPath(st.currentHeading, hm.headingText, hm.level)
        updated == [st EXCEPT !.currentHeading = newPath]
        flushed == IF Trim(st.currentChunk) # <<>> THEN PushChunk(updated, metadata) ELSE updated
    IN  [flushed EXCEPT !.currentChunk = trimmed \o <<NL, NL>>, !.startPath = newPath]

\* The heading branch of the loop: the buffer, when it has content, is
\* flushed, the heading path is updated and the heading starts a new buffer
HeadingStep(st, trimmed, hm, metadata) ==
    LET newPath == updateHeadingPath(st.currentHeading, hm.headingText, hm.level)
        flushed == IF Trim(st.currentChunk) # <<>>
                   THEN [PushChunk(st, metadata) EXCEPT !.currentChunk = <<>>]
                   ELSE st
    IN  [flushed EXCEPT !.currentHeading = newPath,
                        !.currentChunk   = trimmed \o <<NL, NL>>,
                        !.startPath      = newPath]

\* One iteration of the paragraph loop of splitText
SplitStep(self, st, paragraph, metadata) ==
    LET trimmed == Trim(paragraph)
        hm      == HeadingMatch(trimmed)
    IN  IF trimmed = <<>> THEN st
        ELSE IF hm.matched
        THEN HeadingStep(st, trimmed, hm, metadata)
        ELSE LET proposedChunk == st.currentChunk \o trimmed \o <<NL, NL>>
             IN  IF TooLong(self, proposedChunk) /\ Trim(st.currentChunk) # <<>>
                 THEN [PushChunk(st, metadata) EXCEPT
                         !.currentChunk = BufferAfterFlush(st, trimmed),
                         !.startPath    = st.currentHeading]
                 ELSE [st EXCEPT !.currentChunk = proposedChunk,
                                 !.startPath    = IF st.currentChunk = <<>>
                                                  THEN st.currentHeading ELSE @]

RECURSIVE SplitLoop(_, _, _, _)
SplitLoop(self, st, paragraphs, metadata) ==
    IF paragraphs = <<>> THEN st
    ELSE SplitLoop(self, SplitStep(self, st, Head(paragraphs), metadata), Tail(paragraphs), metadata)

\* Mutant of LastFlush: what is left in the buffer after the loop is dropped
NoLastFlush(st, metadata) == st

\* "Don't forget the last chunk": the buffer left by the loop is flushed
LastFlush(st, metadata) ==
    IF Trim(st.currentChunk) # <<>> THEN PushChunk(st, metadata) ELSE st

\* The variables of splitText after its loop and the flush that follows it;
\* built holds, for every chunk pushed, what BuiltFrom remembers of it
SplitFlushed(self, txt, metadata) ==
    LastFlush(SplitLoop(self,
                        [chunks |-> <<>>, currentHeading |-> <<>>, currentChunk |-> <<>>,
                         chunkIndex |-> 0, built |-> <<>>, startPath |-> <<>>],
                        SplitParagraphs(txt), metadata),
              metadata)

splitText(self, txt, metadata) ==
    LET Fallback(st) ==
            IF Len(st.chunks) = 0 /\ Trim(txt) # <<>>
            THEN <<createChunk(Trim(txt), st.currentHeading, 0, metadata)>>
            ELSE st.chunks
    IN  Fallback(SplitFlushed(self, txt, metadata))

-----------------------------------------------------------------------------
(* DatabaseManager and schema.sql *)

\* The database as one value: the four tables and the AUTOINCREMENT counters
DB == [documents  |-> documents,
       chunks     |-> chunks,
       chunks_fts |-> chunks_fts,
       embeddings |-> embeddings,
       seq        |-> seq]

EmptyDB == [documents  |-> {},
            chunks     |-> {},
            chunks_fts |-> {},
            embeddings |-> {},
            seq        |-> [documents |-> 0, chunks |-> 0, embeddings |-> 0]]

\* new Database(path): better-sqlite3 opens every connection with foreign key
\* enforcement on, so the ON DELETE CASCADE clauses of schema.sql are in force.
ForeignKeysOn == TRUE

\* The statement that throws: 0 is the documents insert, 2i+1 the chunks insert
\* of chunks[i], 2i+2 its chunks_fts insert (i from 0); NoFailure when none does.
NoFailure == -1

\* INSERT INTO documents (title, library, version, file_path): a failing
\* statement changes nothing, a succeeding one is committed on its own.
InsertDocRow(db, document) ==
    LET id == db.seq.documents + 1
    IN  [db EXCEPT
           !.documents = @ \cup {[id        |-> id,
                                  title     |-> document.title,
                                  library   |-> document.library,
                                  version   |-> IF document.version = Undefined THEN "latest"
                                                ELSE document.version,
                                  file_path |-> IF document.filePath = Undefined THEN Null
                                                ELSE document.filePath]},
           !.seq.documents = id]

\* INSERT INTO chunks (document_id, content, chunk_index, heading_path) with i
InsertChunkRow(db, documentId, chunk, i) ==
    LET id == db.seq.chunks + 1
    IN  [db EXCEPT
           !.chunks = @ \cup {[id           |-> id,
                               document_id  |-> documentId,
                               content      |-> chunk.content,
                               chunk_index  |-> i,
                               heading_path |-> chunk.headingPath]},
           !.seq.chunks = id]

\* INSERT INTO chunks_fts (rowid, content, heading_path)
InsertFtsRow(db, chunkId, chunk) ==
    [db EXCEPT !.chunks_fts = @ \cup {[rowid        |-> chunkId,
                                       content      |-> chunk.content,
                                       heading_path |-> chunk.headingPath]}]

RECURSIVE InsertChunkLoop(_, _, _, _, _, _)
\* for (let i = 0; i < chunks.length; i++) { insertChunk.run; insertFts.run }
InsertChunkLoop(db, documentId, chunkList, i, chunkIds, failAt) ==
    IF i >= Len(chunkList)
    THEN [db |-> db, threw |-> FALSE, documentId |-> documentId, chunkIds |-> chunkIds]
    ELSE IF failAt = 2 * i + 1
    THEN [db |-> db, threw |-> TRUE, documentId |-> documentId, chunkIds |-> chunkIds]
    ELSE LET db1     == InsertChunkRow(db, documentId, chunkList[i + 1], i)
             chunkId == db1.seq.chunks
         IN  IF failAt = 2 * i + 2
             THEN [db |-> db1, threw |-> TRUE, documentId |-> documentId,
                   chunkIds |-> Append(chunkIds, chunkId)]
             ELSE InsertChunkLoop(InsertFtsRow(db1, chunkId, chunkList[i + 1]), documentId,
                                  chunkList, i + 1, Append(chunkIds, chunkId), failAt)

\* What a throwing insertDocument leaves in the database: no transaction
\* encloses the statements, so everything written before the throw stays.
AfterThrow(before, atThrow) == atThrow

insertDocument(db, document, chunkList, failAt) ==
    IF failAt = 0
    THEN [db |-> db, threw |-> TRUE, documentId |-> 0, chunkIds |-> <<>>]
    ELSE LET db1 == InsertDocRow(db, document)
             r   == InsertChunkLoop(db1, db1.seq.documents, chunkList, 0, <<>>, failAt)
         IN  IF r.threw THEN [r EXCEPT !.db = AfterThrow(db, r.db)] ELSE r

\* JSON.stringify of an array of numbers: NaN is written as null
JsonStringify(embedding) ==
    [i \in DOMAIN embedding |-> IF embedding[i] = "NaN" THEN Null ELSE embedding[i]]

\* The rows INSERT OR REPLACE deletes first: those that collide with the new
\* row on a PRIMARY KEY or UNIQUE column. embeddings has only its id, and the
\* index on chunk_id is not UNIQUE.
ReplacedRows(rows, newRow) == {e \in rows : e.id = newRow.id}

\* INSERT OR REPLACE INTO embeddings (chunk_id, embedding)
InsertEmbeddingRow(db, chunkId, embeddingJson) ==
    LET id     == db.seq.embeddings + 1
        newRow == [id |-> id, chunk_id |-> chunkId, embedding |-> embeddingJson]
    IN  [db EXCEPT !.embeddings = (@ \ ReplacedRows(@, newRow)) \cup {newRow},
                   !.seq.embeddings = id]

\* Mutant of EmbeddingKeyOk: the foreign key is not checked
EmbeddingKeyUnchecked(db, chunkId) == TRUE

\* FOREIGN KEY (chunk_id) REFERENCES chunks(id): the insert throws otherwise
EmbeddingKeyOk(db, chunkId) ==
    ForeignKeysOn => \E c \in db.chunks : c.id = chunkId

RECURSIVE InsertManyLoop(_, _, _, _)
\* the body of the insertMany transaction; failAt is the entry (from 0) whose
\* statement throws for a reason of the storage
InsertManyLoop(db, list, i, failAt) ==
    IF i >= Len(list) THEN [db |-> db, threw |-> FALSE]
    ELSE IF failAt = i \/ ~EmbeddingKeyOk(db, list[i + 1].chunkId)
    THEN [db |-> db, threw |-> TRUE]
    ELSE InsertManyLoop(InsertEmbeddingRow(db, list[i + 1].chunkId,
                                           JsonStringify(list[i + 1].embedding)),
                        list, i + 1, failAt)

\* Mutant of insertEmbeddings: no transaction, the rows written before the
\* throw stay
insertEmbeddingsOneByOne(db, chunkEmbeddings, failAt) ==
    InsertManyLoop(db, chunkEmbeddings, 0, failAt)

\* this.db.transaction(fn)(list): rolled back as a whole when fn throws
insertEmbeddings(db, chunkEmbeddings, failAt) ==
    LET r == InsertManyLoop(db, chunkEmbeddings, 0, failAt)
    IN  IF r.threw THEN [db |-> db, threw |-> TRUE] ELSE r

\* Mutant of DeleteMatches: the version is not part of the WHERE clause
DeleteMatchesAnyVersion(d, library, version) == d.library = library

\* DELETE FROM documents WHERE library = ? [AND version = ?]
DeleteMatches(d, library, version) ==
    /\ d.library = library
    /\ (version \notin {Undefined, Null}) => d.version = version

\* The chunks rows that ON DELETE CASCADE removes with the documents
CascadeChunks(db, deletedDocs) ==
    IF ForeignKeysOn
    THEN {c \in db.chunks : \E d \in deletedDocs : c.document_id = d.id}
    ELSE {}

\* Mutant of CascadeEmbeddings: embeddings.chunk_id without ON DELETE CASCADE
CascadeEmbeddingsOff(db, deletedChunks) == {}

\* The embeddings rows that ON DELETE CASCADE removes with the chunks
CascadeEmbeddings(db, deletedChunks) ==
    IF ForeignKeysOn
    THEN {e \in db.embeddings : \E c \in deletedChunks : e.chunk_id = c.id}
    ELSE {}

\* The chunks_fts rows removed with the chunks: no trigger and no statement
\* of the program deletes from chunks_fts.
CascadeFts(db, deletedChunks) == {}

\* stmt.run(...).changes counts the rows of the DELETE itself, not the cascade
deleteLibrary(db, library, version) ==
    LET deletedDocs   == {d \in db.documents : DeleteMatches(d, library, version)}
        deletedChunks == CascadeChunks(db, deletedDocs)
    IN  [db |-> [db EXCEPT !.documents  = @ \ deletedDocs,
                           !.chunks     = @ \ deletedChunks,
                           !.embeddings = @ \ CascadeEmbeddings(db, deletedChunks),
                           !.chunks_fts = @ \ CascadeFts(db, deletedChunks)],
         changes |-> Cardinality(deletedDocs)]

\* SELECT d.*, COUNT(c.id) FROM documents d LEFT JOIN chunks c ... GROUP BY d.id
getDocuments(db, library, version) ==
    {[document    |-> d,
      chunk_count |-> Cardinality({c \in db.chunks : c.document_id = d.id})] :
        d \in {x \in db.documents :
                 /\ (library \notin {Undefined, Null}) => x.library = library
                 /\ (version \notin {Undefined, Null}) => x.version = version}}

-----------------------------------------------------------------------------
(* Full-text search: chunks_fts MATCH ?, ORDER BY rank, LIMIT ? *)

\* Characters the unicode61 tokenizer of FTS5 treats as separators
SeparatorChars == Whitespace \cup {"#", ">", "|", "-", "%", Backtick}

IsTokenChar(c) == c \notin SeparatorChars

\* The token that starts at i: the maximal run of token characters
TokenAt(s, i) == SubSeq(s, i, i + LeadingCount(SubSeq(s, i, Len(s)), Range(s) \ SeparatorChars) - 1)

TokenStarts(s) ==
    {i \in DOMAIN s : IsTokenChar(s[i]) /\ (i = 1 \/ ~IsTokenChar(s[i - 1]))}

\* Number of occurrences of term among the tokens of s
TermCount(s, term) == Cardinality({i \in TokenStarts(s) : TokenAt(s, i) = term})

\* The terms of an FTS5 query of barewords (implicitly ANDed)
QueryTerms(query) == {TokenAt(query, i) : i \in TokenStarts(query)}

\* FTS5 rejects a query with no term or with a character that is neither part
\* of a bareword nor whitespace: "fts5: syntax error"
QuerySyntaxError(query) ==
    \/ QueryTerms(query) = {}
    \/ \E i \in DOMAIN query : ~IsTokenChar(query[i]) /\ query[i] \notin Whitespace

\* Occurrences of a term in the two indexed columns of an entry
TermHits(entry, term) == TermCount(entry.content, term) + TermCount(entry.heading_path, term)

RECURSIVE SumHits(_, _, _)
SumHits(entry, terms, acc) ==
    IF terms = {} THEN acc
    ELSE LET x == CHOOSE y \in terms : TRUE
         IN  SumHits(entry, terms \ {x}, acc + TermHits(entry, x))

\* Occurrences of the query terms in the two indexed columns of an entry
Hits(entry, query) == SumHits(entry, QueryTerms(query), 0)

FtsMatch(entry, query) ==
    \A term \in QueryTerms(query) :
        TermCount(entry.content, term) + TermCount(entry.heading_path, term) > 0

\* fts.rank: the bm25 score, smaller (more negative) for a better match;
\* modelled by the number of occurrences of the query terms.
Rank(entry, query) == 0 - Hits(entry, query)

\* The row the SELECT of searchChunks builds from a joined triple
SearchRow(f, c, d, query) ==
    [chunk_id     |-> c.id,
     content      |-> c.content,
     heading_path |-> c.heading_path,
     title        |-> d.title,
     library      |-> d.library,
     version      |-> d.version,
     file_path    |-> d.file_path,
     rank         |-> Rank(f, query)]

\* FROM chunks_fts fts JOIN chunks c ON fts.rowid = c.id
\*                     JOIN documents d ON c.document_id = d.id
\* WHERE chunks_fts MATCH ?
JoinedRows(db, query) ==
    LET triples == {t \in db.chunks_fts \X db.chunks \X db.documents :
                       /\ t[1].rowid = t[2].id
                       /\ t[2].document_id = t[3].id
                       /\ FtsMatch(t[1], query)}
    IN  {SearchRow(t[1], t[2], t[3], query) : t \in triples}

RECURSIVE RankOrders(_, _)
\* ORDER BY fts.rank LIMIT n: every sequence of n of the rows (of all, if they
\* are fewer) that ascends in rank and leaves out no row of a better rank than
\* one it has (SQL leaves the order of rows of equal rank open)
RankOrders(rows, n) ==
    IF rows = {} \/ n = 0 THEN {<<>>}
    ELSE LET best == {r \in rows : \A q \in rows : r.rank <= q.rank}
         IN  UNION {{<<r>> \o rest : rest \in RankOrders(rows \ {r}, n - 1)} : r \in best}

\* LIMIT ?: the number of rows returned; a negative limit is no limit
ApplyLimit(rows, limit) == IF limit < 0 THEN Cardinality(rows) ELSE limit

\* The outcomes searchChunks(query, limit) can have: it throws on a syntax
\* error, else returns the rows in one of the rank orders cut at the limit
searchChunks(db, query, limit) ==
    IF QuerySyntaxError(query)
    THEN {[threw |-> TRUE, rows |-> <<>>]}
    ELSE LET matches == JoinedRows(db, query)
         IN  {[threw |-> FALSE, rows |-> o] : o \in RankOrders(matches, ApplyLimit(matches, limit))}

-----------------------------------------------------------------------------
(* DocumentIndexingService.searchDocuments *)

Truthy(v) == v \notin {Undefined, Null}

\* Mutant of PostFilter: the version is not compared
PostFilterLibraryOnly(results, library, version) ==
    IF Truthy(library)
    THEN SelectSeq(results, LAMBDA r : r.library = library)
    ELSE results

\* results.filter(...) when library or version is given
PostFilter(results, library, version) ==
    IF Truthy(library) \/ Truthy(version)
    THEN SelectSeq(results, LAMBDA r :
            /\ ~(Truthy(library) /\ r.library # library)
            /\ ~(Truthy(version) /\ r.version # version))
    ELSE results

\* Mutant of SliceToLimit: the results are not truncated
SliceNothing(results, limit) == results

\* results.slice(0, limit)
SliceToLimit(results, limit) == Take(results, limit)

\* object.name: undefined when the object has no such property
Prop(object, name) == IF name \in DOMAIN object THEN object[name] ELSE Undefined

\* The object built for each result: result.url and result.chunk_type are read
\* from the row of searchChunks
ShapeResult(r) ==
    [title       |-> r.title,
     library     |-> r.library,
     version     |-> r.version,
     url         |-> Prop(r, "url"),
     content     |-> r.content,
     headingPath |-> r.heading_path,
     chunkType   |-> Prop(r, "chunk_type"),
     score       |-> r.rank]

\* Mutant of SearchFailure: the error is swallowed and success reported
SearchFailureSwallowed(message) == [success |-> TRUE, error |-> message, results |-> <<>>]

\* catch (error): the object returned in place of the error
SearchFailure(message) == [success |-> FALSE, error |-> message, results |-> <<>>]

\* searchDocuments once searchChunks(query, limit * 2) threw or returned
\* ftsResults; embedThrows: generateEmbeddings([query]) of the embeddings
\* service throws, which happens inside the same try block.
searchDocuments(query, options, threw, ftsResults, embedThrows) ==
    IF threw
    THEN SearchFailure("fts5: syntax error")
    ELSE IF options.useSemanticSearch /\ embedThrows
    THEN SearchFailure("embeddings error")
    ELSE LET filtered == PostFilter(ftsResults, options.library, options.version)
             results  == SliceToLimit(filtered, options.limit)
         IN  [success      |-> TRUE,
              results      |-> [i \in DOMAIN results |-> ShapeResult(results[i])],
              query        |-> query,
              totalResults |-> Len(results)]

-----------------------------------------------------------------------------
(* MockEmbeddingsService *)

\* str.charCodeAt(i) for the characters of the texts
charCodeAt(c) ==
    CASE c = NL  -> 10
      [] c = SP  -> 32
      [] c = "#" -> 35
      [] c = "%" -> 37
      [] c = ">" -> 62
      [] c = "a" -> 97
      [] c = "b" -> 98
      [] OTHER   -> 63

RECURSIVE HashLoop(_, _, _, _)
\* hash = ((hash << 5) - hash) + char; hash = hash & hash: 31 * hash + char in
\* 32 bits, kept as two halves of 16 bits (hi, lo)
HashLoop(str, i, hi, lo) ==
    IF i > Len(str) THEN <<hi, lo>>
    ELSE LET low  == lo * HashFactor + charCodeAt(str[i])
             high == hi * HashFactor + (low \div HalfWord)
         IN  HashLoop(str, i + 1, high % HalfWord, low % HalfWord)

\* simpleHash(str): Math.abs(hash) / 2147483647, given by its numerator
\* (the halves of |hash|; a hash with the sign bit set is negative)
simpleHash(str) ==
    LET h   == HashLoop(str, 1, 0, 0)
        abs == IF h[1] < HalfWord \div 2 THEN h
               ELSE IF h[2] = 0 THEN <<HalfWord - h[1], 0>>
               ELSE <<HalfWord - 1 - h[1], HalfWord - h[2]>>
    IN  IF abs = <<0, 0>> THEN "0" ELSE ToString(abs[1]) \o ":" \o ToString(abs[2])

\* generateMockEmbedding(text): component i is sin(hash * (i + 1)) * 0.5 over
\* the magnitude; with hash 0 every component is 0 / 0
generateMockEmbedding(str) ==
    LET hash == simpleHash(str)
    IN  [i \in 1..VectorLen |->
            IF hash = "0" THEN "NaN" ELSE "sin(" \o hash \o "*" \o ToString(i) \o ")"]

\* generateEmbeddings(texts): texts.map(generateMockEmbedding)
generateEmbeddings(texts) == [i \in DOMAIN texts |-> generateMockEmbedding(texts[i])]

-----------------------------------------------------------------------------
(* DocumentIndexingService.indexFile *)

\* this.splitter of DocumentIndexingService
IndexerSplitter ==
    NewSplitter([maxChunkSize |-> IndexerMaxChunkSize, chunkOverlap |-> IndexerChunkOverlap])

\* A path that resolves to no file
NoFile == "ENOENT"

\* path.basename(filePath) and path.basename(filePath, path.extname(filePath))
Basename(filePath, withExt) ==
    IF withExt THEN <<filePath.name, filePath.ext>> ELSE <<filePath.name>>

\* The document objects of lines 42-66: one for each part that is not blank
\* when a separator is given, else one for the whole file. None of them has
\* a filePath property.
BuildDocuments(filePath, content, options) ==
    LET version == IF options.version = Undefined THEN "latest" ELSE options.version
    IN  IF options.separator # <<>>
        THEN LET parts == SplitStr(content, options.separator)
                 partDoc(i) ==
                     [title    |-> (IF Truthy(options.title) THEN <<options.title>>
                                    ELSE Basename(filePath, TRUE)) \o <<"- Part", i>>,
                      content  |-> Trim(parts[i]),
                      url      |-> "file://" \o filePath.name \o filePath.ext \o "#part-"
                                       \o ToString(i),
                      library  |-> options.library,
                      version  |-> version,
                      filePath |-> Undefined]
             IN  SelectSeq([i \in DOMAIN parts |-> partDoc(i)], LAMBDA d : d.content # <<>>)
        ELSE <<[title    |-> IF Truthy(options.title) THEN <<options.title>>
                             ELSE Basename(filePath, FALSE),
                content  |-> content,
                url      |-> "file://" \o filePath.name \o filePath.ext,
                library  |-> options.library,
                version  |-> version,
                filePath |-> Undefined]>>

\* No fault of the embedding step
EmbedOk == "ok"

\* Mutant of EmbedChunks: the rows written before insertEmbeddings threw stay
EmbedChunksPartial(db, chunkList, chunkIds, fault) ==
    IF fault = "generate" THEN db
    ELSE LET vectors == generateEmbeddings([i \in DOMAIN chunkList |-> chunkList[i].content])
             chunkEmbeddings == [i \in DOMAIN chunkIds |->
                                    [chunkId |-> chunkIds[i], embedding |-> vectors[i]]]
             failAt == IF fault = "persist" THEN Len(chunkEmbeddings) - 1 ELSE NoFailure
         IN  InsertManyLoop(db, chunkEmbeddings, 0, failAt).db

\* Lines 85-98: the embeddings of the chunks are generated and stored; when
\* generateEmbeddings or insertEmbeddings throws, the error is logged and the
\* indexing goes on. fault: EmbedOk, "generate" or "persist".
EmbedChunks(db, chunkList, chunkIds, fault) ==
    IF fault = "generate" THEN db
    ELSE LET vectors == generateEmbeddings([i \in DOMAIN chunkList |-> chunkList[i].content])
             chunkEmbeddings == [i \in DOMAIN chunkIds |->
                                    [chunkId |-> chunkIds[i], embedding |-> vectors[i]]]
             failAt == IF fault = "persist" THEN Len(chunkEmbeddings) - 1 ELSE NoFailure
         IN  insertEmbeddings(db, chunkEmbeddings, failAt).db

\* The faults of one indexFile call: the document (from 1) and the statement
\* of its insertDocument that throws, and the document whose embedding step
\* fails and how; document 0 is no document.
NoFaults == [storage |-> [doc |-> 0, stmt |-> NoFailure], embed |-> [doc |-> 0, kind |-> EmbedOk]]

\* Mutant of AddChunks: the count of the last document replaces the total
AddChunksLast(totalChunks, n) == n

\* totalChunks += chunks.length
AddChunks(totalChunks, n) == totalChunks + n

RECURSIVE IndexLoop(_, _, _, _, _, _, _)
\* Lines 71-106: for (const doc of documents), from document k
IndexLoop(db, filePath, docs, k, totalChunks, results, faults) ==
    IF k > Len(docs)
    THEN [db |-> db, threw |-> FALSE, totalChunks |-> totalChunks, results |-> results]
    ELSE LET doc    == docs[k]
             failAt == IF faults.storage.doc = k THEN faults.storage.stmt ELSE NoFailure
             fault  == IF faults.embed.doc = k THEN faults.embed.kind ELSE EmbedOk
             Embed(chunkList, stored) ==
                 IF stored.threw
                 THEN [db |-> stored.db, threw |-> TRUE, totalChunks |-> totalChunks,
                       results |-> results]
                 ELSE IndexLoop(EmbedChunks(stored.db, chunkList, stored.chunkIds, fault),
                                filePath, docs, k + 1, AddChunks(totalChunks, Len(chunkList)),
                                Append(results, [documentId |-> stored.documentId,
                                                 title      |-> doc.title,
                                                 chunks     |-> Len(chunkList)]),
                                faults)
             Store(chunkList) == Embed(chunkList, insertDocument(db, doc, chunkList, failAt))
         IN  Store(splitText(IndexerSplitter, doc.content,
                             [source  |-> filePath,
                              library |-> doc.library,
                              version |-> doc.version]))

\* Mutant of NotFoundError: without the existsSync check, the error is the
\* one readFileSync throws
ReadFileError(filePath) == <<"ENOENT: no such file or directory, open ", filePath>>

\* new Error(`File not found: ${filePath}`).message
NotFoundError(filePath) == <<"File not found: ", filePath>>

\* Mutant of IndexFailure: the error is reported as a success
IndexFailureAsSuccess(message) == [success |-> TRUE, error |-> message]

\* catch (error) of lines 117-123: the object returned in place of the error
IndexFailure(message) == [success |-> FALSE, error |-> message]

\* error.message of an error of the storage
StorageError == <<"SqliteError">>

\* indexFile(filePath, options): the tables after the call and the object it
\* returns. content is the content of the file, or NoFile.
indexFile(db, filePath, content, options, faults) ==
    IF content = NoFile
    THEN [db |-> db, outcome |-> IndexFailure(NotFoundError(filePath))]
    ELSE LET Return(docs, r) ==
                 IF r.threw
                 THEN [db |-> r.db, outcome |-> IndexFailure(StorageError)]
                 ELSE [db |-> r.db,
                       outcome |-> [success         |-> TRUE,
                                    documentsIndexed |-> Len(docs),
                                    totalChunks      |-> r.totalChunks,
                                    results          |-> r.results]]
             Index(docs) == Return(docs, IndexLoop(db, filePath, docs, 1, 0, <<>>, faults))
         IN  Index(BuildDocuments(filePath, content, options))

-----------------------------------------------------------------------------
(* Inputs *)

Libraries == {"X", "Y"}

\* options.version / the version argument: absent, or a version string
VersionInputs == {Undefined, "v1"}

DocInputs == [title : {"T"}, library : Libraries, version : VersionInputs, filePath : {Undefined}]

NoMetadata == [source |-> Undefined, library |-> Undefined, version |-> Undefined]

\* The text of the documents of Spec and SpecStorage: "a\n\n# b", two chunks
DocTexts == {<<"a", NL, NL, "#", SP, "b">>}

\* The text of the documents of SpecSearch, "a\n\n# a\n\n# a\n\na\n\n# b":
\* four chunks, in which the term a occurs 1, 2, 3 and 0 times
SearchTexts ==
    {<<"a", NL, NL, "#", SP, "a", NL, NL, "#", SP, "a", NL, NL, "a", NL, NL, "#", SP, "b">>}

Vectors == {<<"0.6", "0.8">>, <<"NaN", "0.8">>}

\* "a", the empty query and "#", which FTS5 rejects
Queries == {<<"a">>, <<>>, <<"#">>}

\* limit: a row count, from 0
Limits == 0..MaxLimit

\* The building blocks of the texts given to splitText
Pieces ==
    {<<"#", SP, "a">>, <<"#", "#", SP, "b">>, <<NL, NL>>, <<NL>>, <<SP>>, <<"a">>, <<"#">>}

RECURSIVE TextsUpTo(_)
\* Every concatenation of at most n pieces
TextsUpTo(n) ==
    IF n = 0 THEN {<<>>}
    ELSE LET shorter == TextsUpTo(n - 1)
         IN  shorter \cup {t \o p : t \in shorter, p \in Pieces}

SplitterOptions ==
    [maxChunkSize : {0, TestChunkSize}, chunkOverlap : {0, TestOverlap}]

\* The separator given to indexFile
Sep == <<"%">>

\* The files: p.md is "a%\n%a\n\n# a" (three parts, the second one blank;
\* the third one gives two chunks), none.md does not exist
FilePaths == [name : {"p", "none"}, ext : {".md"}]

\* fs.existsSync(filePath) and fs.readFileSync(filePath, 'utf-8')
ReadFile(filePath) ==
    IF filePath.name = "p"
    THEN <<"a">> \o Sep \o <<NL>> \o Sep \o <<"a", NL, NL, "#", SP, "a">>
    ELSE NoFile

\* The options given to indexFile: library X with the defaults and no
\* separator, library Y with a version, a title and the separator
IndexOptions ==
    {[library |-> "X", version |-> Undefined, title |-> Undefined, separator |-> <<>>],
     [library |-> "Y", version |-> "v1", title |-> "T", separator |-> Sep]}

\* The most documents a file of FilePaths gives
MaxParts == 2

\* The faults of an indexFile call that makes n documents: a statement of
\* insertDocument (the documents insert, the first chunks insert or the first
\* chunks_fts insert) throws for one document, and the embedding step fails
\* for one document that is reached
IndexFaults(n) ==
    {f \in [storage : {NoFaults.storage} \cup [doc : 1..MaxParts, stmt : 0..2],
            embed   : {NoFaults.embed} \cup [doc : 1..MaxParts, kind : {"generate", "persist"}]] :
        /\ f.storage.doc <= n
        /\ f.embed.doc <= n
        /\ f.storage.doc # 0 => f.embed.doc < f.storage.doc}

\* Heading texts given to updateHeadingPath: "a" and "b > c"
HeadingTexts == {<<"a">>, <<"b", SP, ">", SP, "c">>}

-----------------------------------------------------------------------------
(* index-docker.js: initializeIndexingServices and the tools of the index *)

\* The value of documentIndexingService once it is assigned
Service == "DocumentIndexingService"

\* The event loop at the start of the evaluation of the module: stage is
\* "module" up to the call of line 66, "main" from there to the end of the
\* synchronous code (the registrations and main()), "listening" once the
\* stack is empty and the transport takes requests; micro holds the
\* continuations queued as microtasks, macro those that follow an I/O event
ModuleStarts == [stage |-> "module", micro |-> <<>>, macro |-> <<>>]

\* The event loop of a server that has long been started
ServerRunning == [stage |-> "listening", micro |-> <<>>, macro |-> <<>>]

\* Mutant of AwaitInitialize: initialize() waits for I/O, so what follows the
\* await runs after an event of the loop
AwaitInitializeIo(l, continuation) == [l EXCEPT !.macro = Append(@, continuation)]

\* await databaseManager.initialize(): the body of initialize() has no await,
\* its promise is settled when it returns, and what follows the await is
\* queued as a microtask
AwaitInitialize(l, continuation) == [l EXCEPT !.micro = Append(@, continuation)]

\* The continuation that runs next: the microtasks come before the events
NextContinuation(l) == IF l.micro # <<>> THEN Head(l.micro) ELSE Head(l.macro)

\* The event loop once that continuation has run
AfterContinuation(l) ==
    IF l.micro # <<>> THEN [l EXCEPT !.micro = Tail(@)] ELSE [l EXCEPT !.macro = Tail(@)]

\* A request is an event of the transport: its handler runs when the stack
\* is empty and no microtask is queued
RequestsDispatched(l) == l.stage = "listening" /\ l.micro = <<>>

\* Mutant of ServiceAfterInit: the handle is assigned before initialize() is
\* awaited
ServiceBeforeInit(initialized) == Service

\* let documentIndexingService, assigned in the try block after
\* await databaseManager.initialize(): it stays undefined when that throws
ServiceAfterInit(initialized) == IF initialized THEN Service ELSE Undefined

\* The message of the error every tool throws when the handle is not set
NotInitialized ==
    "Document indexing services not initialized. Please check the database setup."

\* The result of a tool that failed, and of one that succeeded
ToolError(message) == [isError |-> TRUE, text |-> message]

ToolText(content) == [isError |-> FALSE, text |-> content]

\* STANDARD_SEPARATOR, "###SEPARATOR###" in the code, the separator of the
\* file here
StandardSeparator == Sep

\* Mutant of ActualSeparator: the separator is taken from the arguments only
SeparatorOfArgs(args, content) == args.separator

\* Lines 427-441: actualSeparator is the separator given, or the standard one
\* when none is given and the file read at filePath contains it
ActualSeparator(args, content) ==
    IF /\ args.separator = <<>>
       /\ content # NoFile
       /\ Includes(content, StandardSeparator)
    THEN StandardSeparator
    ELSE args.separator

\* The options index_file_to_db gives to indexFile for a file with this
\* content: version is 'latest' when left out
IndexOptionsFor(args, content) ==
    [library   |-> args.library,
     version   |-> IF args.version = Undefined THEN "latest" ELSE args.version,
     title     |-> args.title,
     separator |-> ActualSeparator(args, content)]

ToolIndexOptions(args) == IndexOptionsFor(args, ReadFile(args.filePath))

\* The handler of index_file_to_db on a file with this content: the tables
\* after it, the methods of the service it called and the result it returns
IndexFileHandler(service, db, args, content, faults) ==
    IF service = Undefined
    THEN [db |-> db, calls |-> <<>>, result |-> ToolError(NotInitialized)]
    ELSE LET Return(r) ==
                 [db     |-> r.db,
                  calls  |-> <<"indexFile">>,
                  result |-> IF r.outcome.success
                             THEN ToolText([documents   |-> r.outcome.documentsIndexed,
                                            totalChunks |-> r.outcome.totalChunks])
                             ELSE ToolError(r.outcome.error)]
         IN  Return(indexFile(db, args.filePath, content,
                              IndexOptionsFor(args, content), faults))

\* The handler of index_file_to_db on the files of ReadFile
index_file_to_db(service, db, args, faults) ==
    IndexFileHandler(service, db, args, ReadFile(args.filePath), faults)

\* The file jina_reader_list writes
OutputPath == [name |-> "out", ext |-> ".md"]

\* line.startsWith('http'); "http" stands for its four characters
StartsWithHttp(line) == Len(line) >= 1 /\ line[1] = "http"

\* Lines 187-190: the lines of the input file, trimmed, that are not empty
\* and start with http
UrlsOf(lines) ==
    SelectSeq([i \in DOMAIN lines |-> Trim(lines[i])],
              LAMBDA line : line # <<>> /\ StartsWithHttp(line))

\* Lines 228-239: what is pushed to allResults for a URL; the fetch gave
\* content ("ok"), a status that is not ok ("status") or threw ("threw")
ResultOf(url, fetched) ==
    IF fetched.kind = "ok"
    THEN <<"URL: ">> \o url \o <<NL>> \o fetched.text
    ELSE <<"ERROR processing ">> \o url \o <<": ">> \o fetched.text

\* Line 248: allResults.join(delimiter)
FinalOutput(urls, fetched, delimiter) ==
    Join([i \in DOMAIN urls |-> ResultOf(urls[i], fetched[i])], delimiter)

\* The handler of jina_reader_list with the default delimiter: the output
\* file after it and the result it returns
jina_reader_list(file, lines, fetched) ==
    LET urls == UrlsOf(lines)
    IN  IF urls = <<>>
        THEN [file |-> file, result |-> ToolError("Error: No valid URLs found in the input file")]
        ELSE [file   |-> FinalOutput(urls, fetched, StandardSeparator),
              result |-> ToolText([processed |-> Cardinality({i \in DOMAIN urls :
                                                                 fetched[i].kind = "ok"}),
                                   urls      |-> Len(urls)])]

\* The lines of an input file: two URLs, one of them with blanks around it, a
\* URL that contains the delimiter, an empty line and a line that is no URL
InputLines == {<<"http", "a">>, <<SP, "http", "b", SP>>, <<"http", "#">> \o Sep, <<>>, <<"a">>}

\* What fetching a URL gives: content, blank content, content that contains
\* the delimiter, a status that is not ok, a thrown error
FetchResults ==
    {[kind |-> "ok", text |-> <<"a">>],
     [kind |-> "ok", text |-> <<>>],
     [kind |-> "ok", text |-> <<"a">> \o Sep \o <<"a">>],
     [kind |-> "status", text |-> <<"404 - Not Found">>],
     [kind |-> "threw", text |-> <<"fetch failed">>]}

\* The requests for index_file_to_db on the file jina_reader_list wrote
OutputToolArgs ==
    {[filePath |-> OutputPath, library |-> "X", version |-> Undefined, title |-> Undefined,
      separator |-> sep] : sep \in {<<>>, Sep}}

\* SELECT library, version, COUNT(*) FROM documents GROUP BY library, version
getLibraries(db) ==
    {[library        |-> d.library,
      version        |-> d.version,
      document_count |-> Cardinality({x \in db.documents :
                                         x.library = d.library /\ x.version = d.version})] :
        d \in db.documents}

\* The handler of list_indexed_docs
list_indexed_docs(service, db, args) ==
    IF service = Undefined
    THEN [calls |-> <<>>, result |-> ToolError(NotInitialized)]
    ELSE IF Truthy(args.library)
    THEN [calls  |-> <<"getDocuments">>,
          result |-> ToolText(getDocuments(db, args.library, args.version))]
    ELSE [calls  |-> <<"getIndexedLibraries">>,
          result |-> ToolText(getLibraries(db))]

\* The handler of search_indexed_docs, once searchChunks threw or returned
\* ftsResults (when the service is called): useSemanticSearch is left out,
\* and generateEmbeddings of MockEmbeddingsService does not throw
search_indexed_docs(service, args, threw, ftsResults) ==
    IF service = Undefined
    THEN [calls |-> <<>>, result |-> ToolError(NotInitialized)]
    ELSE LET Return(r) ==
                 [calls  |-> <<"searchDocuments">>,
                  result |-> IF r.success THEN ToolText(r.results) ELSE ToolError(r.error)]
         IN  Return(searchDocuments(args.query,
                                    [library |-> args.library, version |-> args.version,
                                     limit |-> args.limit, useSemanticSearch |-> TRUE],
                                    threw, ftsResults, FALSE))

\* The arguments of index_file_to_db, of list_indexed_docs and of
\* search_indexed_docs (query is not empty, limit is a number)
IndexToolArgs ==
    {[filePath |-> f, library |-> o.library, version |-> o.version, title |-> o.title,
      separator |-> o.separator] : f \in FilePaths, o \in IndexOptions}

ListToolArgs == [library : {Undefined, "X"}, version : VersionInputs]

SearchToolArgs ==
    [query : Queries \ {<<>>}, library : {Undefined, "X"}, version : {Undefined},
     limit : 1..MaxLimit]

\* With MockEmbeddingsService, generateEmbeddings does not throw
ToolIndexFaults(n) == {f \in IndexFaults(n) : f.embed.kind # "generate"}

-----------------------------------------------------------------------------
(* indexFile as a coroutine: it runs from its start, or from the return of   *)
(* await generateEmbeddings, to the next await or to its return; everything *)
(* between two awaits is synchronous, the calls of the storage included     *)

CallIds == 1..MaxCalls

\* A call not made yet; the same fields hold the local variables of a call
\* that is suspended ("embedding") or has returned ("returned")
IdleCall ==
    [pc |-> "idle", filePath |-> Undefined, docs |-> <<>>, k |-> 0, chunkList |-> <<>>,
     documentId |-> 0, chunkIds |-> <<>>, totalChunks |-> 0, results |-> <<>>,
     outcome |-> [success |-> FALSE, error |-> <<>>]]

\* Mutant of ChunkIdsOfCall: the ids of the chunks inserted last in the
\* database are taken instead of the ones the call holds
LatestChunkIds(db, call) ==
    [j \in DOMAIN call.chunkIds |-> db.seq.chunks - Len(call.chunkIds) + j]

\* chunkIds of line 82, read at line 90 after the await
ChunkIdsOfCall(db, call) == call.chunkIds

\* Lines 71-87 and 108-115: the loop takes the document call.k, if there is
\* one, stores it and suspends at await generateEmbeddings; after the last
\* document the call returns its success
IndexNext(db, call) ==
    IF call.k > Len(call.docs)
    THEN [db   |-> db,
          call |-> [call EXCEPT !.pc = "returned",
                                !.outcome = [success          |-> TRUE,
                                             documentsIndexed |-> Len(call.docs),
                                             totalChunks      |-> call.totalChunks,
                                             results          |-> call.results]]]
    ELSE LET doc == call.docs[call.k]
             Suspend(chunkList, stored) ==
                 [db   |-> stored.db,
                  call |-> IF stored.threw
                           THEN [call EXCEPT !.pc = "returned",
                                             !.outcome = IndexFailure(StorageError)]
                           ELSE [call EXCEPT !.pc = "embedding",
                                             !.chunkList = chunkList,
                                             !.documentId = stored.documentId,
                                             !.chunkIds = stored.chunkIds]]
             Store(chunkList) ==
                 Suspend(chunkList, insertDocument(db, doc, chunkList, NoFailure))
         IN  Store(splitText(IndexerSplitter, doc.content,
                             [source  |-> call.filePath,
                              library |-> doc.library,
                              version |-> doc.version]))

\* Lines 22-87: indexFile from its start to its first await or its return
StartIndex(db, filePath, content, options) ==
    IF content = NoFile
    THEN [db   |-> db,
          call |-> [IdleCall EXCEPT !.pc = "returned", !.filePath = filePath,
                                    !.outcome = IndexFailure(NotFoundError(filePath))]]
    ELSE IndexNext(db, [IdleCall EXCEPT !.filePath = filePath,
                                        !.docs = BuildDocuments(filePath, content, options),
                                        !.k = 1])

\* Mutant of PushedResult: the running total is reported for the document
PushedResultWithTotal(call) ==
    [documentId |-> call.documentId,
     title      |-> call.docs[call.k].title,
     chunks     |-> call.totalChunks + Len(call.chunkList)]

\* Lines 101-105: results.push({ documentId, title: doc.title, chunks: chunks.length })
PushedResult(call) ==
    [documentId |-> call.documentId,
     title      |-> call.docs[call.k].title,
     chunks     |-> Len(call.chunkList)]

\* Lines 87-106 and on: generateEmbeddings has returned, the embeddings are
\* stored (an error of insertEmbeddings is caught), the document is counted
\* and the loop goes on
ResumeIndex(db, call) ==
    IndexNext(EmbedChunks(db, call.chunkList, ChunkIdsOfCall(db, call), EmbedOk),
              [call EXCEPT !.k = @ + 1,
                           !.totalChunks = AddChunks(@, Len(call.chunkList)),
                           !.results = Append(@, PushedResult(call))])

-----------------------------------------------------------------------------
(* Initial states *)

NoCall == [op |-> "none"]

NoPath ==
    [current |-> <<>>, previous |-> <<>>, heading |-> <<>>, level |-> 0, count |-> 0,
     headings |-> <<>>]

InitTables ==
    /\ documents = EmptyDB.documents
    /\ chunks = EmptyDB.chunks
    /\ chunks_fts = EmptyDB.chunks_fts
    /\ embeddings = EmptyDB.embeddings
    /\ seq = EmptyDB.seq
    /\ last = NoCall
    /\ calls = [i \in CallIds |-> IdleCall]
    /\ outputFile = NoFile

InitDB ==
    /\ InitTables
    /\ documentIndexingService = Service
    /\ loop = ServerRunning

\* The storage engine after initialize(): empty tables
Init ==
    /\ InitDB
    /\ pc = "api"
    /\ text = <<>>
    /\ splitter = IndexerSplitter
    /\ emitted = <<>>
    /\ path = NoPath

\* index-docker.js starts to be evaluated: the handle is declared and not
\* assigned, no code of the module has run yet
InitServer ==
    /\ InitTables
    /\ documentIndexingService = Undefined
    /\ loop = ModuleStarts
    /\ pc = "loading"
    /\ text = <<>>
    /\ splitter = IndexerSplitter
    /\ emitted = <<>>
    /\ path = NoPath

\* A splitter built from some options and a text to split
InitSplit ==
    /\ InitDB
    /\ pc = "start"
    /\ text \in TextsUpTo(MaxPieces)
    /\ splitter \in {NewSplitter(o) : o \in SplitterOptions}
    /\ emitted = <<>>
    /\ path = NoPath

\* The heading path at the start of splitText
InitPath ==
    /\ InitDB
    /\ pc = "path"
    /\ text = <<>>
    /\ splitter = IndexerSplitter
    /\ emitted = <<>>
    /\ path = NoPath

-----------------------------------------------------------------------------
(* Calls of the storage engine and of the query service *)

SetDB(db) ==
    /\ documents' = db.documents
    /\ chunks' = db.chunks
    /\ chunks_fts' = db.chunks_fts
    /\ embeddings' = db.embeddings
    /\ seq' = db.seq

InsertDocumentAct(document, chunkList, failAt) ==
    LET r == insertDocument(DB, document, chunkList, failAt)
    IN  /\ SetDB(r.db)
        /\ last' = [op         |-> "insertDocument",
                    library    |-> document.library,
                    nChunks    |-> Len(chunkList),
                    threw      |-> r.threw,
                    documentId |-> r.documentId,
                    chunkIds   |-> r.chunkIds]

\* The statements of insertDocument(document, chunkList) that can throw
FailPoints(chunkList, storageFails) ==
    IF storageFails THEN {NoFailure} \cup 0..(2 * Len(chunkList)) ELSE {NoFailure}

\* indexFile, line 73: the chunks of the document texts
ChunksOf(texts) == {splitText(IndexerSplitter, t, NoMetadata) : t \in texts}

DocChunks == ChunksOf(DocTexts)

SearchChunks == ChunksOf(SearchTexts)

\* The chunks of the documents of SpecLibrarySearch: those of SearchTexts, and
\* the one chunk of the text "a", in which the term a occurs once
LibraryChunks == ChunksOf(SearchTexts \cup {<<"a">>})

\* insertDocument(document, chunks) with the chunks of one of the texts
InsertDocumentCalls(chunkLists, storageFails) ==
    /\ seq.documents < MaxDocs
    /\ \E document \in DocInputs, chunkList \in chunkLists :
          \E failAt \in FailPoints(chunkList, storageFails) :
              InsertDocumentAct(document, chunkList, failAt)
    /\ UNCHANGED <<loop, outputFile, calls, documentIndexingService, text, splitter, emitted, pc, path>>

\* The lists given to insertEmbeddings: one entry, or two entries for
\* consecutive chunk ids
EmbeddingLists ==
    LET entries == [chunkId : 1..seq.chunks, embedding : Vectors]
    IN  {<<e>> : e \in entries}
          \cup {pair \in {<<e1, e2>> : e1 \in entries, e2 \in entries} :
                   pair[2].chunkId = pair[1].chunkId + 1}

InsertEmbeddingsCalls(maxRows) ==
    /\ \E list \in EmbeddingLists :
          /\ seq.embeddings + Len(list) <= maxRows
          /\ \E failAt \in {NoFailure} \cup 0..(Len(list) - 1) :
                LET r == insertEmbeddings(DB, list, failAt)
                IN  /\ SetDB(r.db)
                    /\ last' = [op |-> "insertEmbeddings", list |-> list, threw |-> r.threw]
    /\ UNCHANGED <<loop, outputFile, calls, documentIndexingService, text, splitter, emitted, pc, path>>

\* insertEmbeddings(list) with a statement that can throw at any entry: a
\* call that throws is rolled back and adds no row, so only the rows of the
\* calls that return are counted against the bound
InsertEmbeddingsBatch ==
    /\ \E list \in EmbeddingLists :
          \E failAt \in {NoFailure} \cup 0..(Len(list) - 1) :
              \E r \in {insertEmbeddings(DB, list, failAt)} :
                  /\ r.db.seq.embeddings <= MaxEmbeddingRows
                  /\ SetDB(r.db)
                  /\ last' = [op |-> "insertEmbeddings", list |-> list,
                              failAt |-> failAt, threw |-> r.threw]
    /\ UNCHANGED <<loop, outputFile, calls, documentIndexingService, text, splitter, emitted, pc, path>>

DeleteLibraryAct(library, version) ==
    LET r == deleteLibrary(DB, library, version)
    IN  /\ SetDB(r.db)
        /\ last' = [op      |-> "deleteLibrary",
                    library |-> library,
                    version |-> version,
                    changes |-> r.changes,
                    deleted |-> documents \ r.db.documents]

DeleteLibraryCall ==
    /\ \E library \in Libraries, version \in VersionInputs : DeleteLibraryAct(library, version)
    /\ UNCHANGED <<loop, outputFile, calls, documentIndexingService, text, splitter, emitted, pc, path>>

\* A search is a SELECT and leaves the tables as they are: a search that
\* follows a search reaches the states the second one reaches alone, so the
\* searches are taken in the states that Init, an insert or a delete left.
AfterWrite == last.op \notin {"searchChunks", "searchDocuments"}

SearchChunksCall ==
    /\ AfterWrite
    /\ \E query \in Queries, limit \in Limits :
          \E r \in searchChunks(DB, query, limit) :
              last' = [op |-> "searchChunks", query |-> query, limit |-> limit,
                       threw |-> r.threw, rows |-> r.rows]
    /\ UNCHANGED <<loop, outputFile, calls, documentIndexingService, text, splitter, emitted, pc, path, dbvars>>

\* useSemanticSearch is true when the caller leaves it out
SearchOptions ==
    [library : {Undefined, "X"}, version : VersionInputs, limit : Limits,
     useSemanticSearch : BOOLEAN]

SearchDocumentsCall ==
    /\ AfterWrite
    /\ \E query \in Queries, options \in SearchOptions :
          \E r \in searchChunks(DB, query, options.limit * OverFetch),
             embedThrows \in IF options.useSemanticSearch THEN BOOLEAN ELSE {FALSE} :
              last' = [op          |-> "searchDocuments",
                       query       |-> query,
                       options     |-> options,
                       threw       |-> r.threw,
                       ftsResults  |-> r.rows,
                       embedThrows |-> embedThrows,
                       outcome     |-> searchDocuments(query, options, r.threw, r.rows,
                                                       embedThrows)]
    /\ UNCHANGED <<loop, outputFile, calls, documentIndexingService, text, splitter, emitted, pc, path, dbvars>>

\* The documents indexFile makes of the file: none when there is no file
DocumentsOf(filePath, options) ==
    IF ReadFile(filePath) = NoFile THEN <<>>
    ELSE BuildDocuments(filePath, ReadFile(filePath), options)

\* indexFile(filePath, options), run to its return (one call at a time)
IndexFileCall ==
    /\ \E filePath \in FilePaths, options \in IndexOptions :
          \E docs \in {DocumentsOf(filePath, options)} :
              /\ seq.documents + Len(docs) <= MaxDocs
              /\ \E faults \in IndexFaults(Len(docs)) :
                    \E r \in {indexFile(DB, filePath, ReadFile(filePath), options, faults)} :
                        /\ SetDB(r.db)
                        /\ last' = [op       |-> "indexFile",
                                    filePath |-> filePath,
                                    options  |-> options,
                                    faults   |-> faults,
                                    docs     |-> docs,
                                    outcome  |-> r.outcome]
    /\ UNCHANGED <<loop, outputFile, calls, documentIndexingService, text, splitter, emitted, pc, path>>

\* Line 66: initializeIndexingServices() is called and not awaited. It runs
\* to await databaseManager.initialize(), which has succeeded or thrown; what
\* follows the await waits in the event loop
CallInitializeIndexingServices ==
    /\ loop.stage = "module"
    /\ \E initialized \in BOOLEAN :
          loop' = [AwaitInitialize(loop, [initialized |-> initialized]) EXCEPT !.stage = "main"]
    /\ last' = [op |-> "initializeIndexingServices()"]
    /\ UNCHANGED <<outputFile, calls, documentIndexingService, text, splitter, emitted, pc, path,
                   dbvars>>

\* The rest of the module and main(): the tools are registered and the
\* transport is connected; the synchronous code of the module ends
StartServer ==
    /\ loop.stage = "main"
    /\ loop' = [loop EXCEPT !.stage = "listening"]
    /\ last' = [op |-> "main"]
    /\ UNCHANGED <<outputFile, calls, documentIndexingService, text, splitter, emitted, pc, path,
                   dbvars>>

\* initializeIndexingServices goes on after its await: the handle is assigned
\* when initialize() succeeded, and the function returns false when it threw
InitializeIndexingServices ==
    /\ pc = "loading"
    /\ loop.stage = "listening"
    /\ loop.micro # <<>> \/ loop.macro # <<>>
    /\ \E continuation \in {NextContinuation(loop)} :
          /\ documentIndexingService' = ServiceAfterInit(continuation.initialized)
          /\ pc' = IF continuation.initialized THEN "ready" ELSE "disabled"
          /\ last' = [op |-> "initializeIndexingServices", returned |-> continuation.initialized]
    /\ loop' = AfterContinuation(loop)
    /\ UNCHANGED <<outputFile, calls, text, splitter, emitted, path, dbvars>>

\* A request for index_file_to_db is handled
IndexFileTool ==
    /\ RequestsDispatched(loop)
    /\ \E args \in IndexToolArgs :
          \E docs \in {DocumentsOf(args.filePath, ToolIndexOptions(args))} :
              /\ seq.documents + Len(docs) <= MaxDocs
              /\ \E faults \in ToolIndexFaults(Len(docs)) :
                    \E r \in {index_file_to_db(documentIndexingService, DB, args, faults)} :
                        /\ SetDB(r.db)
                        /\ last' = [op     |-> "index_file_to_db",
                                    args   |-> args,
                                    faults |-> faults,
                                    calls  |-> r.calls,
                                    result |-> r.result]
    /\ UNCHANGED <<loop, outputFile, calls, documentIndexingService, text, splitter, emitted, pc, path>>

\* A request for list_indexed_docs is handled
ListDocsTool ==
    /\ RequestsDispatched(loop)
    /\ \E args \in ListToolArgs :
          \E r \in {list_indexed_docs(documentIndexingService, DB, args)} :
              last' = [op |-> "list_indexed_docs", args |-> args, calls |-> r.calls,
                       result |-> r.result]
    /\ UNCHANGED <<loop, outputFile, calls, documentIndexingService, text, splitter, emitted, pc, path, dbvars>>

\* The outcomes of searchChunks in a request for search_indexed_docs: it is
\* not called when the handle is not set
ToolSearchChunks(args) ==
    IF documentIndexingService = Undefined
    THEN {[threw |-> FALSE, rows |-> <<>>]}
    ELSE searchChunks(DB, args.query, args.limit * OverFetch)

\* A request for search_indexed_docs is handled
SearchDocsTool ==
    /\ RequestsDispatched(loop)
    /\ \E args \in SearchToolArgs :
          \E f \in ToolSearchChunks(args) :
              \E r \in {search_indexed_docs(documentIndexingService, args, f.threw, f.rows)} :
                  last' = [op |-> "search_indexed_docs", args |-> args, calls |-> r.calls,
                           result |-> r.result]
    /\ UNCHANGED <<loop, outputFile, calls, documentIndexingService, text, splitter, emitted, pc, path, dbvars>>

\* A call of indexFile starts and runs to its first await or to its return
StartIndexFile ==
    /\ \E i \in CallIds, filePath \in FilePaths, options \in IndexOptions :
          /\ calls[i].pc = "idle"
          /\ \A j \in 1..(i - 1) : calls[j].pc # "idle"
          /\ \E r \in {StartIndex(DB, filePath, ReadFile(filePath), options)} :
                /\ SetDB(r.db)
                /\ calls' = [calls EXCEPT ![i] = r.call]
                /\ last' = [op |-> "indexFile starts", call |-> i]
    /\ UNCHANGED <<loop, outputFile, documentIndexingService, text, splitter, emitted, pc, path>>

\* A suspended call of indexFile goes on after its await, to its next await
\* or to its return
ResumeIndexFile ==
    /\ \E i \in CallIds :
          /\ calls[i].pc = "embedding"
          /\ \E r \in {ResumeIndex(DB, calls[i])} :
                /\ SetDB(r.db)
                /\ calls' = [calls EXCEPT ![i] = r.call]
                /\ last' = [op |-> "indexFile resumes", call |-> i]
    /\ UNCHANGED <<loop, outputFile, documentIndexingService, text, splitter, emitted, pc, path>>

\* A request for jina_reader_list with the default delimiter is handled: the
\* lines of the input file and what fetching each URL gives are inputs. The
\* output file is written once
JinaReaderListTool ==
    /\ RequestsDispatched(loop)
    /\ outputFile = NoFile
    /\ \E n \in 1..MaxLines :
          \E lines \in [1..n -> InputLines] :
              \E fetched \in [1..Len(UrlsOf(lines)) -> FetchResults] :
                  \E r \in {jina_reader_list(outputFile, lines, fetched)} :
                      /\ outputFile' = r.file
                      /\ last' = [op      |-> "jina_reader_list",
                                  urls    |-> UrlsOf(lines),
                                  fetched |-> fetched,
                                  result  |-> r.result]
    /\ UNCHANGED <<loop, calls, documentIndexingService, text, splitter, emitted, pc, path, dbvars>>

\* A request for index_file_to_db on the file jina_reader_list wrote is
\* handled, on tables without documents
IndexOutputFileTool ==
    /\ RequestsDispatched(loop)
    /\ seq.documents = 0
    /\ \E args \in OutputToolArgs :
          \E r \in {IndexFileHandler(documentIndexingService, DB, args, outputFile, NoFaults)} :
              /\ SetDB(r.db)
              /\ last' = [op     |-> "index_file_to_db",
                          args   |-> args,
                          faults |-> NoFaults,
                          calls  |-> r.calls,
                          result |-> r.result]
    /\ UNCHANGED <<loop, outputFile, calls, documentIndexingService, text, splitter, emitted, pc, path>>

-----------------------------------------------------------------------------
(* Spec: the storage engine, every statement succeeding *)

InsertDocumentCall == InsertDocumentCalls(DocChunks, FALSE)

InsertEmbeddingsCall == InsertEmbeddingsCalls(MaxEmbeddingRows)

Next ==
    \/ InsertDocumentCall
    \/ InsertEmbeddingsCall
    \/ DeleteLibraryCall

Spec == Init /\ [][Next]_vars

-----------------------------------------------------------------------------
(* SpecStorage: the storage engine with statements that throw, and with *)
(* embeddings inserted again for the same chunk                          *)

InsertDocumentThrowing == InsertDocumentCalls(DocChunks, TRUE)

InsertEmbeddingsAgain == InsertEmbeddingsCalls(MaxReinsertRows)

NextStorage ==
    \/ InsertDocumentThrowing
    \/ InsertEmbeddingsAgain
    \/ DeleteLibraryCall

SpecStorage == Init /\ [][NextStorage]_vars

-----------------------------------------------------------------------------
(* SpecEmbed: embeddings are inserted in lists, for the chunks of stored *)
(* documents, with a statement that can throw at any entry of a list     *)

StoreDocumentCall ==
    /\ seq.documents < MaxEmbeddedDocs
    /\ InsertDocumentCall

NextEmbed ==
    \/ StoreDocumentCall
    \/ InsertEmbeddingsBatch

SpecEmbed == Init /\ [][NextEmbed]_vars

-----------------------------------------------------------------------------
(* SpecSearch: documents are indexed and deleted, and searched *)

IndexDocumentCall == InsertDocumentCalls(SearchChunks, FALSE)

NextSearch ==
    \/ IndexDocumentCall
    \/ DeleteLibraryCall
    \/ SearchChunksCall
    \/ SearchDocumentsCall

SpecSearch == Init /\ [][NextSearch]_vars

-----------------------------------------------------------------------------
(* SpecIndex: files are indexed by indexFile, with faults of the storage and *)
(* of the embedding step                                                     *)

NextIndex == IndexFileCall

SpecIndex == Init /\ [][NextIndex]_vars

-----------------------------------------------------------------------------
(* SpecServer: the server of index-docker.js initializes the indexing *)
(* services and handles requests for the three tools of the index     *)

NextServer ==
    \/ CallInitializeIndexingServices
    \/ StartServer
    \/ InitializeIndexingServices
    \/ IndexFileTool
    \/ ListDocsTool
    \/ SearchDocsTool

SpecServer == InitServer /\ [][NextServer]_vars

-----------------------------------------------------------------------------
(* SpecInterleaved: calls of indexFile in flight together, each suspended at *)
(* its awaits, and calls of deleteLibrary between their steps                *)

NextInterleaved ==
    \/ StartIndexFile
    \/ ResumeIndexFile
    \/ DeleteLibraryCall

SpecInterleaved == Init /\ [][NextInterleaved]_vars

-----------------------------------------------------------------------------
(* SpecRoundTrip: jina_reader_list writes its output file and               *)
(* index_file_to_db indexes it                                               *)

NextRoundTrip ==
    \/ JinaReaderListTool
    \/ IndexOutputFileTool

SpecRoundTrip == Init /\ [][NextRoundTrip]_vars

-----------------------------------------------------------------------------
(* SpecLibrarySearch: documents of several libraries, with more and with    *)
(* fewer occurrences of a term, are indexed and searched                     *)

IndexLibraryDocumentCall == InsertDocumentCalls(LibraryChunks, FALSE)

NextLibrarySearch ==
    \/ IndexLibraryDocumentCall
    \/ SearchDocumentsCall

SpecLibrarySearch == Init /\ [][NextLibrarySearch]_vars

-----------------------------------------------------------------------------
(* SpecSplit: splitText on a text, its chunks stored by insertDocument *)

SplitTextCall ==
    /\ pc = "start"
    /\ emitted' = splitText(splitter, text, NoMetadata)
    /\ pc' = "split"
    /\ \E st \in {SplitFlushed(splitter, text, NoMetadata)} :
          last' = [op |-> "splitText", chunks |-> st.chunks, built |-> st.built]
    /\ UNCHANGED <<loop, outputFile, calls, documentIndexingService, text, splitter, path, dbvars>>

\* indexFile, lines 73-82: the chunks of splitText go to insertDocument
StoreChunksCall ==
    /\ pc \in {"split", "stored"}
    /\ seq.documents < MaxDocs
    /\ \E document \in {d \in DocInputs : d.library = "X" /\ d.version = Undefined} :
          InsertDocumentAct(document, emitted, NoFailure)
    /\ pc' = "stored"
    /\ UNCHANGED <<loop, outputFile, calls, documentIndexingService, text, splitter, emitted, path>>

DeleteStoredCall ==
    /\ pc = "stored"
    /\ documents # {}
    /\ DeleteLibraryAct("X", Undefined)
    /\ UNCHANGED <<loop, outputFile, calls, documentIndexingService, text, splitter, emitted, pc, path>>

NextSplit ==
    \/ SplitTextCall
    \/ StoreChunksCall
    \/ DeleteStoredCall

SpecSplit == InitSplit /\ [][NextSplit]_vars

-----------------------------------------------------------------------------
(* SpecPath: updateHeadingPath applied to a running heading path *)

UpdateHeadingPathCall ==
    /\ pc = "path"
    /\ path.count < MaxHeadings
    /\ \E newHeading \in HeadingTexts, level \in 1..MaxHeadingLevel :
          path' = [current  |-> updateHeadingPath(path.current, newHeading, level),
                   previous |-> path.current,
                   heading  |-> newHeading,
                   level    |-> level,
                   count    |-> path.count + 1,
                   headings |-> Append(path.headings, [text |-> newHeading, level |-> level])]
    /\ UNCHANGED <<loop, outputFile, calls, documentIndexingService, text, splitter, emitted, pc, last, dbvars>>

NextPath == UpdateHeadingPathCall

SpecPath == InitPath /\ [][NextPath]_vars

-----------------------------------------------------------------------------
(* Properties of the storage engine *)

Ids(rows) == {r.id : r \in rows}

\* C1: insertDocument is atomic per document. When it threw, the storage holds
\* no document row, no chunk row and no full-text entry of that document, and
\* getDocuments lists no such document; when it returned, the storage holds
\* the document row, all its chunk rows and a full-text entry for each.
C1_InsertDocumentAtomic ==
    last.op = "insertDocument" =>
        LET ownChunks == {c \in chunks : c.document_id = last.documentId}
        IN  IF last.threw
            THEN /\ \A d \in documents : d.id # last.documentId
                 /\ ownChunks = {}
                 /\ \A f \in chunks_fts : f.rowid \notin Range(last.chunkIds)
                 /\ \A g \in getDocuments(DB, Undefined, Undefined) :
                        g.document.id # last.documentId
            ELSE /\ \E d \in documents : d.id = last.documentId
                 /\ Cardinality(ownChunks) = last.nChunks
                 /\ \A c \in ownChunks : \E f \in chunks_fts : f.rowid = c.id

\* C2: each chunk id has at most one embedding row, and after insertEmbeddings
\* returned, the one row of each chunk id of its list holds the vector of that
\* call.
C2_OneEmbeddingPerChunk ==
    /\ \A e1 \in embeddings, e2 \in embeddings : e1.chunk_id = e2.chunk_id => e1 = e2
    /\ (last.op = "insertEmbeddings" /\ ~last.threw) =>
           \A i \in DOMAIN last.list :
               (\A j \in DOMAIN last.list : last.list[j].chunkId = last.list[i].chunkId => j <= i)
               => \E e \in embeddings :
                      /\ e.chunk_id = last.list[i].chunkId
                      /\ e.embedding = JsonStringify(last.list[i].embedding)

\* C20: when a statement of an insertEmbeddings call throws, whichever entry
\* of the list it is for, the embeddings table is what it was before the
\* call: no row of the call is in it and the rows it had are unchanged.
C20_InsertEmbeddingsAtomic ==
    [][(last'.op = "insertEmbeddings" /\ last'.threw) => embeddings' = embeddings]_vars

\* The statement for the second entry of a list threw, after the first entry
\* was written, on a table that had a row
C20_Witness ==
    /\ last.op = "insertEmbeddings"
    /\ last.threw
    /\ Len(last.list) = 2
    /\ last.failAt = 1
    /\ embeddings # {}

\* C3: deleteLibrary(X) with no version removes every document of library X,
\* whatever its version; no chunk of a removed document and no embedding of
\* such a chunk remains; the count returned is the number of documents removed.
C3_DeleteLibraryCascades ==
    [][(last'.op = "deleteLibrary" /\ ~Truthy(last'.version)) =>
          LET gone       == {d \in documents : d.library = last'.library}
              goneChunks == {c \in chunks : c.document_id \in Ids(gone)}
          IN  /\ documents' = documents \ gone
              /\ \A c \in chunks' : c.document_id \notin Ids(gone)
              /\ \A e \in embeddings' : e.chunk_id \notin Ids(goneChunks)
              /\ last'.changes = Cardinality(gone)]_vars

\* C3 witness: a deleteLibrary with no version removed documents of two
\* versions, and with them their chunks and an embedding.
C3_Witness ==
    /\ last.op = "deleteLibrary"
    /\ ~Truthy(last.version)
    /\ \E d1 \in last.deleted, d2 \in last.deleted : d1.version # d2.version
    /\ seq.embeddings > 0
    /\ embeddings = {}
    /\ chunks = {}

\* C4: the full-text mirror is in sync with the chunk table: the keys of the
\* full-text entries are the ids of the live chunks.
C4_FtsInSync == {f.rowid : f \in chunks_fts} = Ids(chunks)

\* C5: deleteLibrary(L, V) removes exactly the documents of library L and
\* version V, returns their count, and leaves every other document, its
\* chunks and their embeddings unchanged.
C5_DeleteVersionFrame ==
    [][(last'.op = "deleteLibrary" /\ Truthy(last'.version)) =>
          LET gone       == {d \in documents :
                                d.library = last'.library /\ d.version = last'.version}
              keptChunks == {c \in chunks : c.document_id \notin Ids(gone)}
          IN  /\ documents' = documents \ gone
              /\ last'.changes = Cardinality(gone)
              /\ chunks' = keptChunks
              /\ {e \in embeddings : e.chunk_id \in Ids(keptChunks)}
                    = {e \in embeddings' : e.chunk_id \in Ids(keptChunks)}
              /\ embeddings' \subseteq embeddings]_vars

\* C5 witness: a deleteLibrary with a version removed a document and left a
\* document of the same library and another version, with an embedding.
C5_Witness ==
    /\ last.op = "deleteLibrary"
    /\ Truthy(last.version)
    /\ last.changes = 1
    /\ \E d \in documents : d.library = last.library /\ d.version # last.version
    /\ embeddings # {}

\* C5 witness of the scenario of the specification: no document of that
\* version exists, the count is 0 and the documents of the library stay.
C5_NoMatch ==
    /\ last.op = "deleteLibrary"
    /\ Truthy(last.version)
    /\ last.changes = 0
    /\ \E d \in documents : d.library = last.library

-----------------------------------------------------------------------------
(* Properties of the splitter *)

\* The paragraphs of a text that are not blank, trimmed, in order
NonBlankParagraphs(txt) ==
    LET paragraphs == SplitParagraphs(txt)
        trimmed    == [i \in DOMAIN paragraphs |-> Trim(paragraphs[i])]
    IN  SelectSeq(trimmed, LAMBDA q : q # <<>>)

\* The paragraphs read across the chunks in the order of the list
ParagraphsOfChunks(chunkList) ==
    Flatten([i \in DOMAIN chunkList |-> NonBlankParagraphs(chunkList[i].content)])

ChunkRowsOf(documentId) == {c \in chunks : c.document_id = documentId}

\* C6: splitText emits N chunks whose index fields are 0, 1, ..., N-1 in
\* emission order, and every stored document holds, for each emitted chunk,
\* one chunk row with that chunk's content and chunk_index equal to its
\* emission index, in every state that follows the insert.
C6_ChunkIndicesContiguous ==
    /\ pc # "start" => \A i \in DOMAIN emitted : emitted[i].index = i - 1
    /\ \A d \in documents :
          /\ Cardinality(ChunkRowsOf(d.id)) = Len(emitted)
          /\ {c.chunk_index : c \in ChunkRowsOf(d.id)} = 0..(Len(emitted) - 1)
          /\ \A i \in DOMAIN emitted :
                \E c \in ChunkRowsOf(d.id) :
                    /\ c.chunk_index = emitted[i].index
                    /\ c.content = emitted[i].content
                    /\ c.heading_path = emitted[i].headingPath

\* C6 witness: two documents were stored from a text of two chunks, one was
\* stored after the other, each with chunk rows of index 0 and 1.
C6_Witness ==
    /\ pc = "stored"
    /\ Len(emitted) = 2
    /\ Cardinality(documents) = 2
    /\ \A d \in documents : {c.chunk_index : c \in ChunkRowsOf(d.id)} = {0, 1}

\* C7: every non-blank paragraph of the input is in exactly one emitted chunk
\* and the paragraphs read across the chunks are in input order, whatever the
\* chunkOverlap option is.
C7_ParagraphsPreserved ==
    pc # "start" => ParagraphsOfChunks(emitted) = NonBlankParagraphs(text)

\* C7 witness: a splitter with a chunkOverlap of its own flushed a chunk
\* because of the size limit, and the text has a blank paragraph.
C7_Witness ==
    /\ pc = "split"
    /\ splitter.chunkOverlap = TestOverlap
    /\ splitter.maxChunkSize = TestChunkSize
    /\ Len(emitted) >= 2
    /\ ~HeadingMatch(emitted[2].content).matched
    /\ Len(SplitParagraphs(text)) > Len(NonBlankParagraphs(text))

\* C8: the new heading path is the first L-1 components of the current path
\* followed by the heading's text; on an empty path it is the heading's text.
C8_HeadingPathTruncates ==
    path.count > 0 =>
        LET components == SplitStr(path.previous, PathSep)
            keep       == IF path.level - 1 < Len(components) THEN path.level - 1
                          ELSE Len(components)
        IN  path.current =
                IF path.previous = <<>> THEN path.heading
                ELSE Join(SubSeq(components, 1, keep) \o <<path.heading>>, PathSep)

\* C8 witness: a path of three components followed by a heading of level 2
\* gives a path of two components.
C8_Witness ==
    /\ Len(SplitStr(path.previous, PathSep)) = 3
    /\ path.level = 2
    /\ path.heading = <<"a">>
    /\ Len(SplitStr(path.current, PathSep)) = 2

\* C23 to C25 are stated of the state that the call of splitText leaves, where
\* last holds the chunks that the loop and the flush after it pushed and, for
\* each of them, what BuiltFrom remembers

\* C23: splitText returns at least one chunk for a text that has a character
\* that is not whitespace and none for an empty or whitespace-only text, and
\* every chunk it returns was pushed by the loop or by the flush that follows
\* it: the fallback on the whole text adds nothing.
C23_ChunksIffContent ==
    pc = "split" =>
        /\ Trim(text) # <<>> => Len(emitted) >= 1
        /\ Trim(text) = <<>> => emitted = <<>>
        /\ emitted = last.chunks

\* A text of one paragraph with whitespace before it was split into its chunk
C23_Witness ==
    /\ pc = "split"
    /\ Trim(text) # <<>>
    /\ text[1] \in Whitespace
    /\ Len(emitted) = 1

\* C24: every chunk of two or more paragraphs was made from a buffer (its
\* paragraphs, each followed by the blank-line separator) of at most
\* maxChunkSize characters, and a chunk made from a longer buffer has one
\* paragraph; the content of a chunk is its buffer, trimmed.
C24_LongBufferOneParagraph ==
    pc = "split" =>
        /\ Len(last.built) = Len(emitted)
        /\ \A i \in DOMAIN emitted :
              /\ emitted[i].content = Trim(last.built[i].buffer)
              /\ Len(NonBlankParagraphs(emitted[i].content)) >= 2 =>
                     Len(last.built[i].buffer) <= splitter.maxChunkSize
              /\ Len(last.built[i].buffer) > splitter.maxChunkSize =>
                     Len(NonBlankParagraphs(emitted[i].content)) = 1

\* A heading longer than maxChunkSize was followed by a paragraph: the size
\* test kept the paragraph out of the buffer of the heading, which became a
\* chunk of one paragraph
C24_Witness ==
    /\ pc = "split"
    /\ splitter.maxChunkSize = TestChunkSize
    /\ Len(emitted) = 2
    /\ Len(last.built[1].buffer) > TestChunkSize
    /\ Len(NonBlankParagraphs(emitted[1].content)) = 1
    /\ ~HeadingMatch(emitted[2].content).matched

\* C25: a paragraph that is a heading is the first paragraph of its chunk,
\* and the heading path of a chunk is the one that was current when the first
\* paragraph of the chunk was put in the buffer.
C25_HeadingStartsChunk ==
    pc = "split" =>
        /\ Len(last.built) = Len(emitted)
        /\ \A i \in DOMAIN emitted :
              LET paragraphs == NonBlankParagraphs(emitted[i].content)
              IN  /\ \A j \in 2..Len(paragraphs) : ~HeadingMatch(paragraphs[j]).matched
                  /\ emitted[i].headingPath = last.built[i].path

\* A text with a paragraph and a heading gave two chunks: the paragraph
\* without a heading path, the heading with the path it opens
C25_Witness ==
    /\ pc = "split"
    /\ Len(emitted) = 2
    /\ emitted[1].headingPath = <<>>
    /\ ~HeadingMatch(emitted[1].content).matched
    /\ HeadingMatch(emitted[2].content).matched
    /\ emitted[2].headingPath = <<"a">>

-----------------------------------------------------------------------------
(* Properties of the query service *)

RECURSIVE IsSubsequence(_, _)
\* a is b with some elements left out, the others in the order of b
IsSubsequence(a, b) ==
    IF a = <<>> THEN TRUE
    ELSE IF b = <<>> THEN FALSE
    ELSE IF Head(a) = Head(b) THEN IsSubsequence(Tail(a), Tail(b))
    ELSE IsSubsequence(a, Tail(b))

\* C9: search and searchChunks return at most limit rows, best rank first, and
\* the rows search returns are rows of the full-text result in their order.
C9_SearchLimitedAndRanked ==
    /\ last.op = "searchChunks" =>
          /\ Len(last.rows) <= last.limit
          /\ \A i \in DOMAIN last.rows, j \in DOMAIN last.rows :
                i < j => last.rows[i].rank <= last.rows[j].rank
    /\ last.op = "searchDocuments" =>
          LET results == last.outcome.results
          IN  /\ Len(results) <= last.options.limit
              /\ \A i \in DOMAIN results, j \in DOMAIN results :
                    i < j => results[i].score <= results[j].score
              /\ IsSubsequence(results,
                               [i \in DOMAIN last.ftsResults |-> ShapeResult(last.ftsResults[i])])

\* C9 witness: a search whose full-text result has more rows than the limit
\* returned limit rows of different ranks.
C9_Witness ==
    /\ last.op = "searchDocuments"
    /\ Len(last.ftsResults) > last.options.limit
    /\ Len(last.outcome.results) = last.options.limit
    /\ last.outcome.results[1].score < last.outcome.results[last.options.limit].score

\* C10: search returns the first limit rows, in rank order, of the rows among
\* the 2*limit best-ranked full-text matches that have the given library and
\* the given version, and every returned row has them.
C10_SearchFiltersOverFetch ==
    (last.op = "searchDocuments" /\ last.outcome.success) =>
        LET opt      == last.options
            matches  == JoinedRows(DB, last.query)
            fetched  == last.ftsResults
            wanted(r) == /\ Truthy(opt.library) => r.library = opt.library
                         /\ Truthy(opt.version) => r.version = opt.version
            eligible == SelectSeq(fetched, wanted)
            n        == IF opt.limit < Len(eligible) THEN opt.limit ELSE Len(eligible)
            results  == last.outcome.results
        IN  /\ Range(fetched) \subseteq matches
            /\ Cardinality(Range(fetched)) = Len(fetched)
            /\ Len(fetched) = IF 2 * opt.limit < Cardinality(matches) THEN 2 * opt.limit
                              ELSE Cardinality(matches)
            /\ \A r \in matches \ Range(fetched) : \A i \in DOMAIN fetched : fetched[i].rank <= r.rank
            /\ \A i \in DOMAIN fetched, j \in DOMAIN fetched :
                  i < j => fetched[i].rank <= fetched[j].rank
            /\ Len(results) = n
            /\ \A i \in 1..n :
                  /\ results[i].title = eligible[i].title
                  /\ results[i].library = eligible[i].library
                  /\ results[i].version = eligible[i].version
                  /\ results[i].content = eligible[i].content
                  /\ results[i].headingPath = eligible[i].heading_path
                  /\ results[i].score = eligible[i].rank
                  /\ wanted(results[i])

\* C10 witness: a search with a library and a version returned a row, and the
\* filter dropped a fetched row of another library or version.
C10_Witness ==
    /\ last.op = "searchDocuments"
    /\ Truthy(last.options.library)
    /\ Truthy(last.options.version)
    /\ last.outcome.results # <<>>
    /\ \E i \in DOMAIN last.ftsResults :
          /\ last.ftsResults[i].library = last.options.library
          /\ last.ftsResults[i].version # last.options.version
    /\ \E m \in JoinedRows(DB, last.query) : m \notin Range(last.ftsResults)

\* C12: every result of a successful searchDocuments carries the type (code,
\* table, heading or text) that splitText gave the chunk when it was indexed.
C12_ResultsCarryChunkType ==
    (last.op = "searchDocuments" /\ last.outcome.success) =>
        \A i \in DOMAIN last.outcome.results :
            \A chunkList \in SearchChunks :
                \A j \in DOMAIN chunkList :
                    chunkList[j].content = last.outcome.results[i].content
                        => last.outcome.results[i].chunkType = chunkList[j].type

\* C18: when the full-text query of searchChunks throws (as it does for an
\* empty query), searchDocuments returns (it does not throw) an object with
\* success false, the message of the error and an empty list of results.
C18_SearchErrorReported ==
    (last.op = "searchDocuments" /\ last.threw) =>
        /\ last.outcome.success = FALSE
        /\ last.outcome.error = "fts5: syntax error"
        /\ last.outcome.results = <<>>

\* The empty query on a database with chunks
C18_Witness ==
    /\ last.op = "searchDocuments"
    /\ last.query = <<>>
    /\ last.threw
    /\ last.outcome.success = FALSE
    /\ chunks # {}

C27_LibrarySearchComplete ==
    (/\ last.op = "searchDocuments"
     /\ last.outcome.success
     /\ Truthy(last.options.library)
     /\ ~Truthy(last.options.version)) =>
        LET ofLibrary == {r \in JoinedRows(DB, last.query) : r.library = last.options.library}
            m         == Cardinality(ofLibrary)
            results   == last.outcome.results
        IN  /\ Len(results) = IF last.options.limit < m THEN last.options.limit ELSE m
            /\ \A i \in DOMAIN results :
                  /\ results[i].library = last.options.library
                  /\ Cardinality({r \in ofLibrary : r.rank < results[i].score}) <= i - 1

-----------------------------------------------------------------------------
(* Properties of the heading path over a sequence of headings *)

\* The headings of a sequence that no later heading of the same or a higher
\* level (a smaller or equal number) has replaced, in order
LiveHeadings(headings) ==
    SelectSeq([i \in DOMAIN headings |->
                  [text |-> headings[i].text,
                   live |-> \A j \in (i + 1)..Len(headings) :
                                headings[j].level > headings[i].level]],
              LAMBDA h : h.live)

\* C26: after a sequence of headings none of which has " > " in its text, the
\* components of the heading path are headings that were not replaced, each
\* at most once and in their order, so there is at most one for a level; the
\* path ends with the last heading; and when the last two headings have the
\* same level the path is the one before the first of them but for its last
\* component, which is the second heading.
C26_OneHeadingPerLevel ==
    (/\ path.count > 0
     /\ \A i \in DOMAIN path.headings : ~Includes(path.headings[i].text, PathSep)) =>
        LET components == SplitStr(path.current, PathSep)
            live       == LiveHeadings(path.headings)
            n          == Len(path.headings)
        IN  /\ IsSubsequence(components, [i \in DOMAIN live |-> live[i].text])
            /\ components[Len(components)] = path.heading
            /\ (n >= 2 /\ path.headings[n - 1].level = path.headings[n].level) =>
                   Len(components) = Len(SplitStr(path.previous, PathSep))

-----------------------------------------------------------------------------
(* Properties of indexFile *)

\* The options of a search that filters nothing and cuts nothing
SearchAll ==
    [library |-> Undefined, version |-> Undefined, limit |-> Cardinality(chunks),
     useSemanticSearch |-> FALSE]

\* The results of searchDocuments(query, SearchAll) that are chunks of the
\* document, over every order the full-text engine can return
ResultsOfDocument(documentId, query) ==
    UNION {LET outcome == searchDocuments(query, SearchAll, r.threw, r.rows, FALSE)
           IN  {outcome.results[i] : i \in {j \in DOMAIN outcome.results :
                   \E c \in chunks : /\ c.id = r.rows[j].chunk_id
                                      /\ c.document_id = documentId}}
           : r \in searchChunks(DB, query, SearchAll.limit * OverFetch)}

\* C11: every document a successful indexFile created is stored with the
\* source locator indexFile built for it (file://<path>, with #part-<i> for
\* a part), and every search result for a chunk of that document carries
\* that locator.
C11_SourceLocatorCarried ==
    (last.op = "indexFile" /\ last.outcome.success) =>
        \A k \in DOMAIN last.docs :
            LET documentId == last.outcome.results[k].documentId
            IN  /\ \A d \in documents :
                      d.id = documentId => d.file_path = last.docs[k].url
                /\ \A query \in Queries :
                      \A result \in ResultsOfDocument(documentId, query) :
                          result.url = last.docs[k].url

\* The chunks of the k-th document of the last indexFile call, as splitText
\* makes them
ChunksOfDoc(k) ==
    splitText(IndexerSplitter, last.docs[k].content,
              [source  |-> last.filePath,
               library |-> last.docs[k].library,
               version |-> last.docs[k].version])

\* The document of the given id is stored with the given chunks, each with
\* its full-text entry, and a search for "a" (a term of every chunk of the
\* files) finds each of them
StoredAndSearchable(documentId, chunkList) ==
    LET rows == ChunkRowsOf(documentId)
    IN  /\ \E d \in documents : d.id = documentId
        /\ Cardinality(rows) = Len(chunkList)
        /\ \A j \in DOMAIN chunkList :
              \E c \in rows : /\ c.chunk_index = j - 1
                               /\ c.content = chunkList[j].content
                               /\ c.heading_path = chunkList[j].headingPath
        /\ \A c \in rows :
              /\ \E f \in chunks_fts : f.rowid = c.id /\ f.content = c.content
              /\ \E r \in JoinedRows(DB, <<"a">>) : r.chunk_id = c.id

\* C13: when generateEmbeddings or insertEmbeddings fails for a document of
\* an indexFile call (and no statement of insertDocument does), the call
\* returns a success that counts the document, the document and all its
\* chunks are stored and found by the full-text search, and no embeddings row
\* refers to a chunk of that document.
C13_EmbeddingFailureTolerated ==
    (/\ last.op = "indexFile"
     /\ last.faults.embed.doc # 0
     /\ last.faults.storage.doc = 0) =>
        /\ last.outcome.success
        /\ last.outcome.documentsIndexed = Len(last.docs)
        /\ Len(last.outcome.results) = Len(last.docs)
        /\ LET k          == last.faults.embed.doc
               documentId == last.outcome.results[k].documentId
           IN  /\ StoredAndSearchable(documentId, ChunksOfDoc(k))
               /\ \A e \in embeddings : e.chunk_id \notin Ids(ChunkRowsOf(documentId))

\* insertEmbeddings fails at the second chunk of the second part of a file,
\* whose first part has its embedding
C13_Witness ==
    /\ last.op = "indexFile"
    /\ last.faults = [storage |-> NoFaults.storage, embed |-> [doc |-> 2, kind |-> "persist"]]
    /\ last.outcome.success
    /\ last.outcome.results[2].chunks = 2
    /\ embeddings # {}

\* C14: indexFile on a path that is no file returns (it does not throw) a
\* failure whose message says the file was not found, and the documents,
\* chunks, full-text entries and embeddings are as they were before the call.
C14_MissingFileFails ==
    [][(last'.op = "indexFile" /\ ReadFile(last'.filePath) = NoFile) =>
          /\ last'.outcome.success = FALSE
          /\ last'.outcome.error = <<"File not found: ", last'.filePath>>
          /\ UNCHANGED dbvars]_vars

\* indexFile on the missing file, called when documents with chunks and
\* embeddings are stored
C14_Witness ==
    /\ last.op = "indexFile"
    /\ last.filePath.name = "none"
    /\ last.outcome.success = FALSE
    /\ documents # {}
    /\ chunks # {}
    /\ embeddings # {}

RECURSIVE SumOfChunks(_)
\* The sum of the chunk counts of the per-document results
SumOfChunks(results) ==
    IF results = <<>> THEN 0 ELSE Head(results).chunks + SumOfChunks(Tail(results))

\* C15: indexFile with a separator, on a file of which N segments between
\* separators are not blank, creates exactly N documents with distinct ids,
\* the chunks of each being those of splitText on its trimmed segment, and
\* returns documentsIndexed = N and totalChunks = the sum of the chunk counts
\* of the documents = the number of chunk rows added (no statement of
\* insertDocument throwing).
C15_SeparatorMakesDocuments ==
    [][(/\ last'.op = "indexFile"
        /\ last'.options.separator # <<>>
        /\ ReadFile(last'.filePath) # NoFile
        /\ last'.faults.storage.doc = 0) =>
          LET segments == SplitStr(ReadFile(last'.filePath), last'.options.separator)
              nonBlank == SelectSeq(segments, LAMBDA p : Trim(p) # <<>>)
              N        == Len(nonBlank)
              outcome  == last'.outcome
              idOf(k)  == outcome.results[k].documentId
              rowsOf(k) == {c \in chunks' : c.document_id = idOf(k)}
              chunksOf(k) == splitText(IndexerSplitter, Trim(nonBlank[k]), NoMetadata)
          IN  /\ outcome.success
              /\ outcome.documentsIndexed = N
              /\ Len(outcome.results) = N
              /\ documents \subseteq documents'
              /\ Ids(documents' \ documents) = {idOf(k) : k \in 1..N}
              /\ Cardinality({idOf(k) : k \in 1..N}) = N
              /\ \A k \in 1..N :
                    /\ outcome.results[k].chunks = Len(chunksOf(k))
                    /\ Cardinality(rowsOf(k)) = Len(chunksOf(k))
                    /\ \A j \in DOMAIN chunksOf(k) :
                          \E c \in rowsOf(k) : /\ c.chunk_index = j - 1
                                                /\ c.content = chunksOf(k)[j].content
              /\ outcome.totalChunks = SumOfChunks(outcome.results)
              /\ chunks \subseteq chunks'
              /\ outcome.totalChunks = Cardinality(chunks' \ chunks)]_vars

\* The file of three segments, one of them blank, gave two documents, of one
\* and of two chunks
C15_Witness ==
    /\ last.op = "indexFile"
    /\ last.options.separator = Sep
    /\ Len(SplitStr(ReadFile(last.filePath), Sep)) = 3
    /\ last.outcome.success
    /\ last.outcome.documentsIndexed = 2
    /\ last.outcome.results[1].chunks = 1
    /\ last.outcome.results[2].chunks = 2
    /\ Cardinality(documents) = 2

\* The tables once the documents before the k-th one of the call are indexed
\* (with the failures of the embedding step the call has)
AfterEarlierDocuments(db, call) ==
    IndexLoop(db, call.filePath, Take(call.docs, call.faults.storage.doc - 1), 1, 0, <<>>,
              [call.faults EXCEPT !.storage = NoFaults.storage]).db

\* C16: when a statement of insertDocument throws for the k-th document of
\* an indexFile call, the call returns (it does not throw) a failure that
\* carries the message of the error, and the k-1 documents stored before it
\* in the call are in the tables with their chunks, full-text entries and
\* embeddings, as is everything that was stored before the call.
C16_StorageFailureReported ==
    [][(last'.op = "indexFile" /\ last'.faults.storage.doc # 0) =>
          LET earlier == AfterEarlierDocuments(DB, last')
          IN  /\ last'.outcome.success = FALSE
              /\ last'.outcome.error = StorageError
              /\ documents \subseteq earlier.documents
              /\ chunks \subseteq earlier.chunks
              /\ embeddings \subseteq earlier.embeddings
              /\ earlier.documents \subseteq documents'
              /\ earlier.chunks \subseteq chunks'
              /\ earlier.chunks_fts \subseteq chunks_fts'
              /\ earlier.embeddings = embeddings']_vars

\* The chunks insert of the second part throws: the first part is stored with
\* its chunk and its embedding
C16_Witness ==
    /\ last.op = "indexFile"
    /\ last.faults = [storage |-> [doc |-> 2, stmt |-> 1], embed |-> NoFaults.embed]
    /\ last.outcome.success = FALSE
    /\ \E d \in documents :
          /\ d.title = last.docs[1].title
          /\ \E c \in ChunkRowsOf(d.id) : \E e \in embeddings : e.chunk_id = c.id

-----------------------------------------------------------------------------
(* Properties of the round trip from jina_reader_list to index_file_to_db *)

\* The step is index_file_to_db without a separator on the file that the
\* jina_reader_list call before it wrote
IndexesWrittenFile ==
    /\ last.op = "jina_reader_list"
    /\ ~last.result.isError
    /\ last'.op = "index_file_to_db"
    /\ last'.args.separator = <<>>

\* No fetched content is blank or contains the delimiter
ContentsAsAssumed(fetched) ==
    \A i \in DOMAIN fetched :
        fetched[i].kind = "ok" =>
            /\ Trim(fetched[i].text) # <<>>
            /\ ~Includes(fetched[i].text, StandardSeparator)

\* Neither a URL nor what its fetch gave contains the delimiter
NoDelimiterIn(urls, fetched) ==
    \A i \in DOMAIN urls :
        /\ ~Includes(urls[i], StandardSeparator)
        /\ ~Includes(fetched[i].text, StandardSeparator)

\* The tables, empty before the step, hold one document for each URL, in the
\* order of the URLs: document k starts with the result written for URL k
OneDocumentPerUrl(urls, fetched) ==
    /\ Cardinality(documents') = Len(urls)
    /\ \A k \in DOMAIN urls :
          \E d \in documents' :
              /\ d.id = k
              /\ \E c \in chunks' :
                    /\ c.document_id = k
                    /\ c.chunk_index = 0
                    /\ OccursAt(c.content,
                                IF fetched[k].kind = "ok" THEN <<"URL: ">> \o urls[k]
                                ELSE <<"ERROR processing ">> \o urls[k], 1)

\* C22 as stated: the file jina_reader_list wrote for N URLs with the default
\* delimiter, given to index_file_to_db without a separator, is indexed as N
\* documents, one for each URL in the order of the input, when no fetched
\* content is blank or contains the delimiter.
C22_RoundTripOneDocumentPerUrl ==
    [][(IndexesWrittenFile /\ ContentsAsAssumed(last.fetched)) =>
          OneDocumentPerUrl(last.urls, last.fetched)]_vars

\* C22, amended: the same when, besides, no URL and no error text written
\* for a URL contains the delimiter.
C22_RoundTripWithoutDelimiterInUrls ==
    [][(/\ IndexesWrittenFile
        /\ ContentsAsAssumed(last.fetched)
        /\ NoDelimiterIn(last.urls, last.fetched)) =>
          OneDocumentPerUrl(last.urls, last.fetched)]_vars

\* The file written for two URLs, the second of which gave an error, has been
\* indexed without a separator argument as two documents
C22_Witness ==
    /\ last.op = "index_file_to_db"
    /\ last.args.separator = <<>>
    /\ ~last.result.isError
    /\ outputFile = FinalOutput(<<<<"http", "a">>, <<"http", "b">>>>,
                                <<[kind |-> "ok", text |-> <<"a">>],
                                  [kind |-> "status", text |-> <<"404 - Not Found">>]>>,
                                StandardSeparator)
    /\ Cardinality(documents) = 2

-----------------------------------------------------------------------------
(* Properties of indexFile calls in flight together *)

\* The ids of the documents a call has stored so far
DocumentIdsOf(call) ==
    {call.results[j].documentId : j \in DOMAIN call.results}
        \cup (IF call.pc = "embedding" THEN {call.documentId} ELSE {})

\* The number of documents a call has stored so far
DocumentCountOf(call) ==
    Len(call.results) + (IF call.pc = "embedding" THEN 1 ELSE 0)

\* C21: under every interleaving of indexFile calls at their awaits (and of
\* deleteLibrary calls between them), the documents of the calls have ids that
\* differ from each other, the chunk_index values of every stored document
\* are 0..N-1, and every embeddings row a call writes references a chunk of
\* the document that call is at and holds the vector computed from the
\* content of that chunk.
C21_ConcurrentCallsKeepApart ==
    [][/\ \A i \in CallIds :
             /\ Cardinality(DocumentIdsOf(calls'[i])) = DocumentCountOf(calls'[i])
             /\ \A j \in CallIds \ {i} :
                    DocumentIdsOf(calls'[i]) \cap DocumentIdsOf(calls'[j]) = {}
       /\ \A d \in documents' :
             LET rows == {c \in chunks' : c.document_id = d.id}
             IN  {c.chunk_index : c \in rows} = 0..(Cardinality(rows) - 1)
       /\ \A e \in embeddings' \ embeddings :
             /\ last'.op = "indexFile resumes"
             /\ \E c \in chunks' :
                   /\ c.id = e.chunk_id
                   /\ c.document_id = calls[last'.call].documentId
                   /\ e.embedding = JsonStringify(generateMockEmbedding(c.content))]_vars

\* Two calls have returned success after the second one stored its document
\* while the first one was suspended, and every chunk has its embedding
C21_Witness ==
    /\ \A i \in CallIds : calls[i].pc = "returned" /\ calls[i].outcome.success
    /\ \E j \in DOMAIN calls[1].results :
          \E k \in DOMAIN calls[2].results :
              calls[2].results[k].documentId < calls[1].results[j].documentId
    /\ \A c \in chunks : \E e \in embeddings : e.chunk_id = c.id
    /\ Cardinality(documents) > MaxCalls

\* The step in which the call i returns a success
ReturnsSuccess(i) ==
    /\ calls[i].pc # "returned"
    /\ calls'[i].pc = "returned"
    /\ calls'[i].outcome.success

\* The document of the given id is in the tables after the step, with this
\* number of chunks
StoredWith(documentId, n) ==
    /\ \E d \in documents' : d.id = documentId
    /\ Cardinality({c \in chunks' : c.document_id = documentId}) = n

\* C28 as stated: when indexFile returns a success, every document of its
\* breakdown is in the tables with exactly the number of chunks reported for
\* it, also when deleteLibrary ran while the call was suspended.
C28_ReportedDocumentsExist ==
    [][\A i \in CallIds :
          ReturnsSuccess(i) =>
              \A k \in DOMAIN calls'[i].outcome.results :
                  StoredWith(calls'[i].outcome.results[k].documentId,
                             calls'[i].outcome.results[k].chunks)]_vars

\* C28, amended: every document of the breakdown was stored with exactly the
\* number of chunks reported for it, and when indexFile returns a success it
\* is in the tables with that number of chunks or it has been removed, with
\* all its chunks, by a deleteLibrary call for its library (and version)
\* that ran while indexFile was suspended; nothing else removes a document.
C28_ReportedDocumentsStoredOrDeleted ==
    [][/\ \A i \in CallIds :
             /\ (calls'[i].pc = "embedding" /\ calls'[i] # calls[i]) =>
                    StoredWith(calls'[i].documentId, Len(calls'[i].chunkList))
             /\ (calls[i].pc = "embedding" /\ calls'[i] # calls[i]) =>
                    LET pushed == calls'[i].results[Len(calls[i].results) + 1]
                    IN  /\ pushed.documentId = calls[i].documentId
                        /\ pushed.chunks = Len(calls[i].chunkList)
             /\ ReturnsSuccess(i) =>
                    \A k \in DOMAIN calls'[i].outcome.results :
                        LET id == calls'[i].outcome.results[k].documentId
                        IN  \/ StoredWith(id, calls'[i].outcome.results[k].chunks)
                            \/ /\ \A d \in documents' : d.id # id
                               /\ \A c \in chunks' : c.document_id # id
       /\ \A d \in documents \ documents' :
             /\ last'.op = "deleteLibrary"
             /\ d.library = last'.library
             /\ Truthy(last'.version) => d.version = last'.version]_vars

\* A call has just returned a success whose breakdown has a document that a
\* deleteLibrary call removed while the call was suspended
C28_Witness ==
    /\ last.op = "indexFile resumes"
    /\ calls[last.call].pc = "returned"
    /\ calls[last.call].outcome.success
    /\ \E k \in DOMAIN calls[last.call].outcome.results :
          \A d \in documents : d.id # calls[last.call].outcome.results[k].documentId

\* C29: in every state reached by interleaved indexFile and deleteLibrary
\* calls, every embeddings row references a chunks row and every chunks row a
\* documents row.
C29_ReferentialIntegrity ==
    /\ \A e \in embeddings : \E c \in chunks : c.id = e.chunk_id
    /\ \A c \in chunks : \E d \in documents : d.id = c.document_id

\* A call went on after its await when a deleteLibrary call had removed the
\* document it was at: its batch of embeddings was refused, while the
\* embeddings of another document are stored
C29_Witness ==
    /\ last.op = "indexFile resumes"
    /\ \E i \in CallIds :
          /\ i = last.call
          /\ calls[i].results # <<>>
          /\ \A d \in documents :
                d.id # calls[i].results[Len(calls[i].results)].documentId
    /\ embeddings # {}

-----------------------------------------------------------------------------
(* Properties of the server *)

ToolNames == {"index_file_to_db", "list_indexed_docs", "search_indexed_docs"}

\* C17: once initializeIndexingServices has failed, every request for
\* index_file_to_db, list_indexed_docs or search_indexed_docs gets an error
\* result, calls no method of the indexing service (so it neither reads nor
\* writes the storage) and leaves the tables as they are.
C17_NoServiceAfterInitFailure ==
    [][(pc = "disabled" /\ last'.op \in ToolNames) =>
          /\ last'.result.isError
          /\ last'.result.text = NotInitialized
          /\ last'.calls = <<>>
          /\ UNCHANGED dbvars]_vars

\* After a failed initialization, a request for search_indexed_docs is answered
C17_Witness ==
    /\ pc = "disabled"
    /\ documentIndexingService = Undefined
    /\ last.op = "search_indexed_docs"
    /\ last.result.isError

\* C30: a request for a tool is handled only after initializeIndexingServices
\* has finished, although nothing awaits it: when the initialization
\* succeeds, the handle is assigned before the first request is handled, and
\* no request is answered with the error of a handle that is not set.
C30_HandleSetBeforeRequests ==
    [][(last'.op \in ToolNames) =>
          /\ pc # "loading"
          /\ pc = "ready" =>
                /\ documentIndexingService = Service
                /\ ~(last'.result.isError /\ last'.result.text = NotInitialized)]_vars

\* After a successful initialization, a request for list_indexed_docs is
\* answered by the service
C30_Witness ==
    /\ pc = "ready"
    /\ loop = ServerRunning
    /\ documentIndexingService = Service
    /\ last.op = "list_indexed_docs"
    /\ ~last.result.isError

====
